---- MODULE Spec2Model ----
(***************************************************************************)
(* State-machine model of the spectrum caches of the specview viewers.     *)
(*                                                                         *)
(* The repository holds three generations of the viewer, each with its own *)
(* spectrum registry; one process runs one component stack (variable app): *)
(*   "cubeview"     : SpecViewWindow + ImagePickerWidget + SpectralDisplay-*)
(*                    Widget + SpectrumEditWindow (pyqtgraph);             *)
(*   "specview"     : SpectralCanvas + SpectrumEditWindow, called directly;*)
(*   "rgbcanvas"    : RGBCanvas in front of a SpectralCanvas;              *)
(*   "lasso"        : the same, in a session of lasso selections with a    *)
(*                    pan, a zoom and the crosshair between them;          *)
(*   "picker"       : SpectrumDislpay, called directly;                    *)
(*   "imagedisplay" : ImageDisplay in front of a SpectrumDislpay;          *)
(*   "scan"         : the same, in a session of key presses and pointer    *)
(*                    motion only;                                         *)
(*   "rgbimage"     : ThreeBandRGB, the band composite;                    *)
(*   "rgbdisplay"   : RGBImageDisplay, the window of the band composite    *)
(*                    with its three band indicators;                      *)
(*   "utils"        : the array functions of specview.utils and the area   *)
(*                    statistics, called directly.                         *)
(*                                                                         *)
(* Every handler is a pure operator from a state record to a state record, *)
(* composed in the order in which the code calls its slots; an exception   *)
(* keeps the assignments made before the raise and is recorded in the      *)
(* field raised.  Pens, colours and redraw requests are not modelled.      *)
(***************************************************************************)
EXTENDS Integers, Sequences, FiniteSets, TLC

VARIABLES
    app,              \* which viewer this process runs
    raised,           \* exception raised by the last handler, "none" if none
    hist,             \* history since start-up or the last clear (observation only)
    \* ---- cubeview: SpectralDisplayWidget / SpecViewWindow / ImagePickerWidget
    _count,           \* SpectralDisplayWidget._count
    _editing,         \* SpectralDisplayWidget._editing
    edit_win,         \* plot item of the open SpectrumEditWindow, 0 if none is open
    plot_items,       \* every PlotDataItem/ErrorBarItem pair created so far
    spec_plot,        \* items currently on SpectralDisplayWidget.spec_plot
    spec_legend,      \* entries of SpectralDisplayWidget.spec_legend
    spectrum_cache,   \* SpecViewWindow.state.spectrum_cache: name -> item
    polygon_cache,    \* SpecViewWindow.polygon_cache: name -> polygon (0 = None)
    imview,           \* polygon items on img_picker.imview.getView()
    _drawing,         \* ImagePickerWidget._drawing
    \* ---- specview: SpectralCanvas
    nspectra,         \* SpectralCanvas.state.nspectra
    spectra,          \* every PlottedSpectrum object created so far
    spectral_catalog, \* SpectralCanvas.state.spectral_catalog (objects)
    current_spectrum, \* SpectralCanvas.state.current_spectrum, 0 = null()
    spec_axis,        \* artists on SpectralCanvas.spec_axis
    legend,           \* SpectralCanvas.legend: handles and labels
    edit_window,      \* spectrum of the open SpectrumEditWindow, 0 if none
    \* ---- picker: SpectrumDislpay
    single_spec_count, \* _plot_state.single_spec_count
    mean_spec_count,  \* _plot_state.mean_spec_count
    plotted,          \* every PlottedSpectrum object created so far
    cached_plots,     \* _plot_state.cached_plots (objects, 0 = null())
    currently_plotted, \* _plot_state.currently_plotted, 0 = null()
    fig,              \* SpectrumDislpay.fig and plot_ax: FALSE = None
    fig_open,         \* plt.fignum_exists(self.fig.number)
    ax_artists,       \* artists on plot_ax and on the axes of earlier figures
    save_dialogs,     \* calls of save_current_spectra waiting in the file dialog
    \* ---- specview: RGBCanvas in front of the SpectralCanvas
    rgbcanvas,        \* RGBCanvas.state (panning, lasso), its selector and
                      \* the limits of its image axis
    \* ---- picker: ImageDisplay in front of the SpectrumDislpay
    imdisplay,        \* ImageDisplay._state, its selector and its patches
    im_event,         \* the event ImageDisplay handled last (observation only)
    \* ---- rgbimage: ThreeBandRGB
    rgb,              \* the fields of the ThreeBandRGB object
    call              \* utils: the last function call and what it returned

cube_vars == <<_count, _editing, edit_win, plot_items, spec_plot, spec_legend,
               spectrum_cache, polygon_cache, imview, _drawing>>

canvas_vars == <<nspectra, spectra, spectral_catalog, current_spectrum,
                 spec_axis, legend, edit_window>>

picker_vars == <<single_spec_count, mean_spec_count, plotted, cached_plots,
                 currently_plotted, fig, fig_open, ax_artists, save_dialogs>>

other_vars == <<rgbcanvas, imdisplay, im_event, rgb, call>>

vars == <<app, raised, hist, cube_vars, canvas_vars, picker_vars, other_vars>>

(***************************************************************************)
(* Bounds and inputs.                                                      *)
(***************************************************************************)
\* Spectra created in one run of a viewer.
MaxItems == 2

\* utils: longest wavelength array and largest wavelength given to find_wvl
MaxLen == 3
MaxWvl == 4

\* picker: file dialogs of "Save Plot Data" open at the same time
MaxDialogs == 1

\* rgbdisplay: areas averaged in one run of the RGB window
MaxAreas == 1

\* lasso: lassos selected in one session
MaxSelections == 3

\* rgbcanvas, lasso: how far (in pixels) panning and zooming move a limit
\* of the image axis away from where imshow has put it
MaxView == 1

\* The loaded cube, cube[row][column] = band slice (Python index + 1); the
\* display image has the cube's height and width.
cube ==
    << << <<1, 2>>, <<3, 4>> >>,
       << <<5, 6>>, <<7, 8>> >>,
       << <<9, 10>>, <<11, 12>> >>,
       << <<13, 14>>, <<15, 16>> >> >>

Height == Len(cube)
Width == Len(cube[1])

\* Python/numpy indexing of an axis of length n: negative indices wrap.
InRange(i, n) == -n <= i /\ i < n
PyIndex(i, n) == IF i < 0 THEN i + n ELSE i

\* cube[r, c, :]
CubeAt(r, c) == cube[PyIndex(r, Height) + 1][PyIndex(c, Width) + 1]
CubeHas(r, c) == InRange(r, Height) /\ InRange(c, Width)

\* Python dict operations on functions with a set of names as domain.
EmptyDict == [n \in {} |-> 0]
DictSet(d, k, v) == [n \in DOMAIN d \cup {k} |-> IF n = k THEN v ELSE d[n]]
DictDel(d, k) == [n \in DOMAIN d \ {k} |-> d[n]]
DictValues(d) == {d[n] : n \in DOMAIN d}

\* f"{n:02d}"
Digit(d) == <<"0", "1", "2", "3", "4", "5", "6", "7", "8", "9">>[d + 1]
RECURSIVE Decimal(_)
Decimal(n) == IF n < 10 THEN Digit(n) ELSE Decimal(n \div 10) \o Digit(n % 10)
Format02d(n) == IF n < 10 THEN "0" \o Digit(n) ELSE Decimal(n)

\* int(v) of a float given in half units (v2 = 2 * v): truncation towards zero.
IntOfHalves(v2) == IF v2 >= 0 THEN v2 \div 2 ELSE -((-v2) \div 2)

(***************************************************************************)
(* cubeview: the pyqtgraph viewer.                                         *)
(* A handler takes and returns the record of the viewer's fields.          *)
(***************************************************************************)
CubeviewState ==
    [_count |-> _count, _editing |-> _editing, edit_win |-> edit_win,
     plot_items |-> plot_items, spec_plot |-> spec_plot,
     spec_legend |-> spec_legend, spectrum_cache |-> spectrum_cache,
     polygon_cache |-> polygon_cache, imview |-> imview,
     _drawing |-> _drawing, raised |-> "none"]

Raise(s, e) == [s EXCEPT !.raised = e]
Failed(s) == s.raised # "none"

\* name=f"SPECTRUM_{self._count:02d}"
SpectrumName(n) == "SPECTRUM_" \o Format02d(n)

\* f"SPECTURM_{self.state.nspectra+1:02d}_AREA"
AreaName(n) == "SPECTURM_" \o Format02d(n) \o "_AREA"

\* The two graphics items of a spectrum on the PlotWidget.
PlotDataItem(id) == [t |-> "plot", id |-> id]
ErrorBarItem(id) == [t |-> "err", id |-> id]

\* plot.name() of the item created last (the value add_spectrum/add_group return)
LastName(s) == s.plot_items[Len(s.plot_items)].name

\* LegendItem.removeItem(plot)
LegendRemove(entries, id) == {e \in entries : e[1] # id}

\* PlotWidget.removeItem(item): nothing if the item is not on the plot; a
\* PlotDataItem leaves the legend with it.
PlotRemove(s, item) ==
    IF item \notin s.spec_plot THEN s
    ELSE [s EXCEPT !.spec_plot = @ \ {item},
                   !.spec_legend = IF item.t = "plot"
                                   THEN LegendRemove(@, item.id) ELSE @]

\* slot of data_added
cache_spectrum(s, id) ==
    [s EXCEPT !.spectrum_cache = DictSet(@, s.plot_items[id].name, id)]

\* SpectralDisplayWidget.add_spectrum(coord), coord = (first, second) index
add_spectrum(s, coord) ==
    LET s1 == [s EXCEPT !._count = @ + 1] IN
    IF ~CubeHas(coord[1], coord[2]) THEN Raise(s1, "IndexError")
    ELSE
        LET id == Len(s1.plot_items) + 1
            item == [name |-> SpectrumName(s1._count), kind |-> "single",
                     spec_array |-> <<CubeAt(coord[1], coord[2])>>]
            s2 == [s1 EXCEPT !.plot_items = Append(@, item),
                             !.spec_plot = @ \cup {PlotDataItem(id)},
                             !.spec_legend = @ \cup {<<id, item.name>>}]
        IN  cache_spectrum(s2, id)

\* SpectralDisplayWidget.add_group(coords), coords = sequence of (x, y)
add_group(s, coords) ==
    LET s1 == [s EXCEPT !._count = @ + 1] IN
    IF \E i \in 1..Len(coords) : Len(coords[i]) # 2
    THEN Raise(s1, "ValueError")
    ELSE IF \E i \in 1..Len(coords) : ~CubeHas(coords[i][2], coords[i][1])
    THEN Raise(s1, "IndexError")
    ELSE
        LET id == Len(s1.plot_items) + 1
            item == [name |-> SpectrumName(s1._count), kind |-> "group",
                     spec_array |-> [i \in 1..Len(coords) |->
                                        CubeAt(coords[i][2], coords[i][1])]]
            s2 == [s1 EXCEPT !.plot_items = Append(@, item),
                             !.spec_plot = @ \cup {PlotDataItem(id),
                                                   ErrorBarItem(id)},
                             !.spec_legend = @ \cup {<<id, item.name>>}]
        IN  cache_spectrum(s2, id)

\* slot of pixel_picked
intercept_pixel_coord(s, y, x) ==
    LET s1 == add_spectrum(s, <<y, x>>) IN
    IF Failed(s1) THEN s1
    ELSE [s1 EXCEPT !.polygon_cache = DictSet(@, LastName(s1), 0)]

\* slot of lasso_finished; the polygon item is identified with its group
intercept_roi(s, in_coords) ==
    LET s1 == add_group(s, in_coords) IN
    IF Failed(s1) THEN s1
    ELSE LET poly == Len(s1.plot_items) IN
         [s1 EXCEPT !.polygon_cache = DictSet(@, LastName(s1), poly),
                    !.imview = @ \cup {poly}]

\* ImagePickerWidget.pixel_select; the pointer is at (px2 / 2, py2 / 2)
pixel_select(s, ctrl, px2, py2) ==
    LET x == IntOfHalves(px2)
        y == IntOfHalves(py2)
    IN  IF ctrl THEN s
        ELSE IF s._drawing THEN s
        ELSE IF y < 0 \/ y > Height THEN s
        ELSE IF x < 0 \/ x > Width THEN s
        ELSE intercept_pixel_coord(s, y, x)

\* alphashape(in_pts).exterior exists only for a polygon: at least three
\* points that are not on one line
IsPolygon(coords) ==
    \E i, j, k \in 1..Len(coords) :
        (coords[j][1] - coords[i][1]) * (coords[k][2] - coords[i][2])
            # (coords[k][1] - coords[i][1]) * (coords[j][2] - coords[i][2])

\* ImagePickerWidget.finish_lasso; in_coords are the grid points inside the
\* drawn polygon
finish_lasso(s, in_coords) ==
    LET s1 == [s EXCEPT !._drawing = FALSE] IN
    IF ~IsPolygon(in_coords) THEN Raise(s1, "AttributeError")
    ELSE intercept_roi(s1, in_coords)

\* ImagePickerWidget.lasso_click
lasso_click(s, ctrl, double, in_coords) ==
    IF ~ctrl THEN s
    ELSE IF ~s._drawing THEN [s EXCEPT !._drawing = TRUE]
    ELSE IF double THEN finish_lasso(s, in_coords)
    ELSE s

\* SpectralDisplayWidget.edit_spectrum, slot of the item's sigClicked
edit_spectrum(s, id) ==
    IF s._editing THEN s
    ELSE [s EXCEPT !._editing = TRUE, !.edit_win = id]

\* a slot of data_updated that renames the entry of spectrum_cache only
update_cache_spectrum_only(s, id, old_name, new_name) ==
    IF old_name \notin DOMAIN s.spectrum_cache THEN Raise(s, "KeyError")
    ELSE [s EXCEPT !.spectrum_cache =
                       DictSet(DictDel(@, old_name), new_name, id)]

\* slot of data_updated
update_cache(s, id, old_name, new_name) ==
    IF old_name \notin DOMAIN s.spectrum_cache THEN Raise(s, "KeyError")
    ELSE
        LET s1 == [s EXCEPT !.spectrum_cache =
                                DictSet(DictDel(@, old_name), new_name, id)]
        IN  IF old_name \notin DOMAIN s1.polygon_cache
            THEN Raise(s1, "KeyError")
            ELSE [s1 EXCEPT !.polygon_cache =
                                DictSet(DictDel(@, old_name), new_name,
                                        s1.polygon_cache[old_name])]

\* edit_spectrum.rename_spectrum, slot of name_changed
rename_spectrum(s, id, old_name, new_name) ==
    LET s1 == [s EXCEPT !.spec_legend =
                            LegendRemove(@, id) \cup {<<id, s.plot_items[id].name>>}]
    IN  update_cache(s1, id, old_name, new_name)

\* SpectrumEditWindow.set_spectrum_name with text in the line edit
set_spectrum_name(s, text) ==
    LET id == s.edit_win
        old_name == s.plot_items[id].name
        s1 == [s EXCEPT !.plot_items[id].name = text]
    IN  rename_spectrum(s1, id, old_name, text)

\* a slot of closed that closes the window and leaves the flag as it is
close_window_keeps_flag(s) == [s EXCEPT !.edit_win = 0]

\* edit_spectrum.close_window, slot of closed (SpectrumEditWindow.closeEvent)
close_window(s) == [s EXCEPT !._editing = FALSE, !.edit_win = 0]

\* remove_spectrum if it skipped a name that is in neither cache
remove_spectrum_ignores_missing(s, name) ==
    LET poly == IF name \in DOMAIN s.polygon_cache
                THEN s.polygon_cache[name] ELSE 0
    IN  [s EXCEPT !.imview = IF poly # 0 THEN @ \ {poly} ELSE @,
                  !.polygon_cache = DictDel(@, name),
                  !.spectrum_cache = DictDel(@, name)]

\* slot of data_removed
remove_spectrum(s, name) ==
    IF name \notin DOMAIN s.polygon_cache THEN Raise(s, "KeyError")
    ELSE
        LET poly == s.polygon_cache[name]
            s1 == [s EXCEPT !.imview = IF poly # 0 THEN @ \ {poly} ELSE @,
                            !.polygon_cache = DictDel(@, name)]
        IN  IF name \notin DOMAIN s1.spectrum_cache THEN Raise(s1, "KeyError")
            ELSE [s1 EXCEPT !.spectrum_cache = DictDel(@, name)]

\* delete_spectrum if it gave the deleted spectrum's number back
delete_spectrum_reuses_number(s) ==
    LET id == s.edit_win
        s1 == PlotRemove(PlotRemove(s, PlotDataItem(id)), ErrorBarItem(id))
        s2 == [close_window(s1) EXCEPT !._editing = FALSE,
                                       !._count = IF @ > 0 THEN @ - 1 ELSE @]
    IN  remove_spectrum(s2, s2.plot_items[id].name)

\* edit_spectrum.delete_spectrum, slot of spectrum_deleted
delete_spectrum(s) ==
    LET id == s.edit_win
        s1 == PlotRemove(PlotRemove(s, PlotDataItem(id)), ErrorBarItem(id))
        s2 == [close_window(s1) EXCEPT !._editing = FALSE]
    IN  remove_spectrum(s2, s2.plot_items[id].name)

\* SpectralDisplayWidget.handle_reset, slot of plot_reset
handle_reset(s) == [s EXCEPT !._count = 0]

\* SpecViewWindow.empty_cache
empty_cache(s) ==
    LET cached == DictValues(s.spectrum_cache)
        s1 == [s EXCEPT !.spec_plot =
                            @ \ ({PlotDataItem(id) : id \in cached}
                                 \cup {ErrorBarItem(id) : id \in cached}),
                        !.spec_legend = {e \in @ : e[1] \notin cached},
                        !.imview = @ \ (DictValues(s.polygon_cache) \ {0})]
    IN  handle_reset(s1)

(***************************************************************************)
(* History since start-up or the last clear: which adds and deletes were   *)
(* made.  It is written by no handler and read by none.                    *)
(***************************************************************************)
\* the number in an auto-generated name
AutoNumber(name) ==
    CHOOSE n \in 0..(MaxItems + 1) : name \in {SpectrumName(n), AreaName(n)}

\* lassos and events are kept in a lasso session: the vertices and the
\* pixels of every lasso that was selected, and the kinds of the events
\* between the first of them and the next lasso of the same vertices
HistInit == [after |-> "startup", attempts |-> FALSE, singles |-> FALSE,
             issued |-> << >>, deleted |-> 0, lassos |-> << >>, events |-> {}]
HistClear == [after |-> "clear", attempts |-> FALSE, singles |-> FALSE,
              issued |-> << >>, deleted |-> 0, lassos |-> << >>, events |-> {}]
\* an add was called (attempted); it created the spectrum named name of kind
\* kind (added)
HistAdd(h, attempted, added, name, kind) ==
    [after |-> h.after,
     attempts |-> h.attempts \/ attempted,
     singles |-> h.singles \/ (added /\ kind = "single"),
     issued |-> IF added THEN Append(h.issued, AutoNumber(name)) ELSE h.issued,
     deleted |-> h.deleted, lassos |-> h.lassos, events |-> h.events]
\* a spectrum was deleted: how many numbers had been issued by then
HistDelete(h) == [h EXCEPT !.deleted = Len(h.issued)]

(***************************************************************************)
(* cubeview: events.                                                       *)
(***************************************************************************)
\* Pointer positions of a click, in half pixels: inside the image (twice the
\* same pixel), left of it, on its right and bottom border, and beyond.
PointerPositions ==
    {<<2 * Width - 1, 2 * Height - 1>>, <<2 * Width - 2, 2 * Height - 2>>,
     <<-2, 0>>, <<2 * Width, 0>>, <<0, 2 * Height>>, <<2 * Width + 2, 0>>}

\* Grid points (x, y) a finished lasso can enclose: a triangle inside the
\* image, two points, and a triangle reaching below the image.
LassoSelections ==
    {<< <<0, 0>>, <<1, 0>>, <<0, 1>> >>,
     << <<0, 0>>, <<1, 0>> >>,
     << <<0, Height - 1>>, <<1, Height - 1>>, <<0, Height>> >>}

\* Texts typed into the edit window's line edit.
RenameTexts == {"SPECTRUM_02", "ROCK"}

SetCubeview(s) ==
    /\ _count' = s._count
    /\ _editing' = s._editing
    /\ edit_win' = s.edit_win
    /\ plot_items' = s.plot_items
    /\ spec_plot' = s.spec_plot
    /\ spec_legend' = s.spec_legend
    /\ spectrum_cache' = s.spectrum_cache
    /\ polygon_cache' = s.polygon_cache
    /\ imview' = s.imview
    /\ _drawing' = s._drawing
    /\ raised' = s.raised

\* the history after a handler that may have called add_spectrum/add_group
CubeviewAdded(s) ==
    HistAdd(hist, s._count # _count, Len(s.plot_items) > Len(plot_items),
            IF Len(s.plot_items) > Len(plot_items) THEN LastName(s) ELSE "",
            IF Len(s.plot_items) > Len(plot_items)
            THEN s.plot_items[Len(s.plot_items)].kind ELSE "")

CanAdd == _count < MaxItems /\ Len(plot_items) < MaxItems

\* sigMouseClicked: pixel_select, then lasso_click
mouse_clicked(s, ctrl, double, pos, in_coords) ==
    lasso_click(pixel_select(s, ctrl, pos[1], pos[2]), ctrl, double, in_coords)

\* a click without the control key
PixelPick(pos) ==
    /\ app = "cubeview"
    /\ CanAdd
    /\ LET s == mouse_clicked(CubeviewState, FALSE, FALSE, pos, << >>) IN
        /\ SetCubeview(s)
        /\ hist' = CubeviewAdded(s)
    /\ UNCHANGED <<app, other_vars, canvas_vars, picker_vars>>

\* a click or double click with the control key held
LassoClick(double, in_coords) ==
    /\ app = "cubeview"
    /\ CanAdd
    /\ LET s == mouse_clicked(CubeviewState, TRUE, double, <<0, 0>>, in_coords) IN
        /\ SetCubeview(s)
        /\ hist' = CubeviewAdded(s)
    /\ UNCHANGED <<app, other_vars, canvas_vars, picker_vars>>

\* add_group called with an array of shape (1, 3)
AddGroup(coords) ==
    /\ app = "cubeview"
    /\ CanAdd
    /\ LET s == add_group(CubeviewState, coords) IN
        /\ SetCubeview(s)
        /\ hist' = CubeviewAdded(s)
    /\ UNCHANGED <<app, other_vars, canvas_vars, picker_vars>>

\* a click on a spectrum shown on the plot
EditSpectrum(id) ==
    /\ app = "cubeview"
    /\ PlotDataItem(id) \in spec_plot
    /\ SetCubeview(edit_spectrum(CubeviewState, id))
    /\ UNCHANGED <<app, other_vars, hist, canvas_vars, picker_vars>>

\* return pressed in the edit window
SetSpectrumName(text) ==
    /\ app = "cubeview"
    /\ edit_win # 0
    /\ SetCubeview(set_spectrum_name(CubeviewState, text))
    /\ UNCHANGED <<app, other_vars, hist, canvas_vars, picker_vars>>

\* "Delete Spectrum" pressed in the edit window
DeleteSpectrum ==
    /\ app = "cubeview"
    /\ edit_win # 0
    /\ SetCubeview(delete_spectrum(CubeviewState))
    /\ hist' = HistDelete(hist)
    /\ UNCHANGED <<app, other_vars, canvas_vars, picker_vars>>

\* the edit window is closed
CloseEditWindow ==
    /\ app = "cubeview"
    /\ edit_win # 0
    /\ SetCubeview(close_window(CubeviewState))
    /\ UNCHANGED <<app, other_vars, hist, canvas_vars, picker_vars>>

\* menu action "Clear Spectrum Plot"
EmptyCache ==
    /\ app = "cubeview"
    /\ SetCubeview(empty_cache(CubeviewState))
    /\ hist' = HistClear
    /\ UNCHANGED <<app, other_vars, canvas_vars, picker_vars>>

(***************************************************************************)
(* specview: SpectralCanvas (matplotlib) and its SpectrumEditWindow.       *)
(***************************************************************************)
CanvasState ==
    [nspectra |-> nspectra, spectra |-> spectra,
     spectral_catalog |-> spectral_catalog,
     current_spectrum |-> current_spectrum, spec_axis |-> spec_axis,
     legend |-> legend, edit_window |-> edit_window, raised |-> "none"]

\* An artist on spec_axis: the line of a spectrum, the error-bar caps and
\* lines of an area mean, the highlight of an edited spectrum (orphan when
\* its window was replaced without being closed), the empty line of a clear.
Artist(t, id) == [t |-> t, id |-> id, orphan |-> FALSE]
Orphan(a) == [a EXCEPT !.orphan = TRUE]

\* the artists a spectrum owns: plot_obj, errorbar_caps, errorbar_lines
ArtistsOf(s, id) ==
    IF s.spectra[id].kind = "mean"
    THEN {Artist("line", id), Artist("cap0", id), Artist("cap1", id),
          Artist("bars", id)}
    ELSE {Artist("line", id)}

\* spec_axis.legend(handles=[i.plot_obj ...], labels=[i.name ...])
CatalogLegend(s) ==
    [i \in 1..Len(s.spectral_catalog) |->
        <<s.spectral_catalog[i], s.spectra[s.spectral_catalog[i]].name>>]

\* PixelCoordinate.pull_data: cube[self.y, self.x, :], c = (x, y)
CanPull(c) == CubeHas(c[2], c[1])
pull_data(c) == CubeAt(c[2], c[1])

\* SpectralCanvas.add_spectrum(c)
canvas_add_spectrum(s, c) ==
    IF ~CanPull(c) THEN Raise(s, "IndexError")
    ELSE
        LET id == Len(s.spectra) + 1
            spectrum == [name |-> SpectrumName(s.nspectra + 1),
                         kind |-> "single", spec_array |-> <<pull_data(c)>>,
                         pixel_coords |-> <<c>>]
            s1 == [s EXCEPT !.spec_axis = @ \cup {Artist("line", id)},
                            !.spectra = Append(@, spectrum),
                            !.nspectra = @ + 1,
                            !.spectral_catalog = Append(@, id),
                            !.current_spectrum = id]
        IN  [s1 EXCEPT !.legend = CatalogLegend(s1)]

\* SpectralCanvas.add_lasso(c_list) of a canvas whose cube is data
\* (data[row][column], Python index + 1); an empty list has no mean to plot
add_lasso(s, data, c_list) ==
    IF \E i \in 1..Len(c_list) :
           ~(/\ InRange(c_list[i][2], Len(data))
             /\ InRange(c_list[i][1], Len(data[1])))
    THEN Raise(s, "IndexError")
    ELSE IF c_list = << >> THEN Raise(s, "ValueError")
    ELSE
        LET id == Len(s.spectra) + 1
            spectrum == [name |-> AreaName(s.nspectra + 1), kind |-> "mean",
                         spec_array |-> [i \in 1..Len(c_list) |->
                             data[PyIndex(c_list[i][2], Len(data)) + 1]
                                 [PyIndex(c_list[i][1], Len(data[1])) + 1]],
                         pixel_coords |-> c_list]
            s1 == [s EXCEPT !.spectra = Append(@, spectrum)]
            s2 == [s1 EXCEPT !.spec_axis = @ \cup ArtistsOf(s1, id),
                             !.nspectra = @ + 1,
                             !.spectral_catalog = Append(@, id),
                             !.current_spectrum = id]
        IN  [s2 EXCEPT !.legend = CatalogLegend(s2)]

\* SpectralCanvas.add_lasso(c_list) of the canvas of the loaded cube
canvas_add_lasso(s, c_list) == add_lasso(s, cube, c_list)

\* SpectralCanvas.on_pick of the line of spectrum id: a highlight is drawn
\* and a new edit window replaces the previous one.  When no spectrum of
\* the catalog owns the picked line, ValueError is raised after the
\* highlight is drawn and before a window is created: the previous window
\* keeps its highlight, and no window ever removes the new one
on_pick(s, id) ==
    IF \A i \in 1..Len(s.spectral_catalog) : s.spectral_catalog[i] # id
    THEN Raise([s EXCEPT !.spec_axis =
                   @ \cup {Orphan(Artist("highlight", id))}],
               "ValueError")
    ELSE [s EXCEPT !.spec_axis =
                       {IF a.t = "highlight" THEN Orphan(a) ELSE a : a \in @}
                           \cup {Artist("highlight", id)},
                   !.edit_window = id]

\* on_pick.modify_legend, slot of name_changed
modify_legend(s) == [s EXCEPT !.legend = CatalogLegend(s)]

\* specview SpectrumEditWindow.set_spectrum_name with text in the line edit
canvas_set_spectrum_name(s, text) ==
    modify_legend([s EXCEPT !.spectra[s.edit_window].name = text])

\* on_pick.delete_highlight, slot of closed (SpectrumEditWindow.closeEvent)
delete_highlight(s) ==
    [s EXCEPT !.spec_axis = {a \in @ : ~(a.t = "highlight" /\ ~a.orphan)},
              !.edit_window = 0]

\* list.remove of the first element equal to id
RemoveFirst(seq, id) ==
    LET i == CHOOSE i \in 1..Len(seq) :
                 seq[i] = id /\ \A j \in 1..(i - 1) : seq[j] # id
    IN  [j \in 1..(Len(seq) - 1) |-> IF j < i THEN seq[j] ELSE seq[j + 1]]

\* delete_spectrum if it removed the line only and left caps and bars
canvas_delete_spectrum_line_only(s) ==
    LET id == s.edit_window
        s1 == IF \E i \in 1..Len(s.spectral_catalog) : s.spectral_catalog[i] = id
              THEN [s EXCEPT !.spec_axis = @ \ {Artist("line", id)},
                             !.spectral_catalog = RemoveFirst(@, id)]
              ELSE s
    IN  delete_highlight(modify_legend(s1))

\* on_pick.delete_spectrum, slot of spectrum_deleted
canvas_delete_spectrum(s) ==
    LET id == s.edit_window
        s1 == IF \E i \in 1..Len(s.spectral_catalog) : s.spectral_catalog[i] = id
              THEN [s EXCEPT !.spec_axis = @ \ ArtistsOf(s, id),
                             !.spectral_catalog = RemoveFirst(@, id)]
              ELSE s
    IN  delete_highlight(modify_legend(s1))

\* SpectralCanvas.clear_spectra
clear_spectra(s) ==
    LET owned == UNION {ArtistsOf(s, s.spectral_catalog[i]) :
                            i \in 1..Len(s.spectral_catalog)}
    IN  [s EXCEPT !.spec_axis = (@ \ owned) \cup {Artist("null", 0)},
                  !.nspectra = 0,
                  !.spectral_catalog = << >>,
                  !.current_spectrum = 0,
                  !.legend = << <<0, "">> >>]

(***************************************************************************)
(* specview: events.                                                       *)
(***************************************************************************)
\* PixelCoordinates (x, y) of a click: inside the cube and right of it.
CanvasCoordinates == {<<Width - 1, Height - 1>>, <<Width, 0>>}

\* PixelCoordinate lists of a lasso: none, one and two pixels.
CanvasLassos ==
    {<< >>, << <<0, 0>> >>, << <<0, 0>>, <<1, 0>> >>}

SetCanvas(s) ==
    /\ nspectra' = s.nspectra
    /\ spectra' = s.spectra
    /\ spectral_catalog' = s.spectral_catalog
    /\ current_spectrum' = s.current_spectrum
    /\ spec_axis' = s.spec_axis
    /\ legend' = s.legend
    /\ edit_window' = s.edit_window
    /\ raised' = s.raised

\* the history after a call of add_spectrum/add_lasso
CanvasAdded(s) ==
    HistAdd(hist, TRUE, Len(s.spectra) > Len(spectra),
            IF Len(s.spectra) > Len(spectra)
            THEN s.spectra[Len(s.spectra)].name ELSE "",
            IF Len(s.spectra) > Len(spectra)
            THEN s.spectra[Len(s.spectra)].kind ELSE "")

CanvasAddSpectrum(c) ==
    /\ app = "specview"
    /\ Len(spectra) < MaxItems
    /\ LET s == canvas_add_spectrum(CanvasState, c) IN
        /\ SetCanvas(s)
        /\ hist' = CanvasAdded(s)
    /\ UNCHANGED <<app, other_vars, cube_vars, picker_vars>>

CanvasAddLasso(c_list) ==
    /\ app = "specview"
    /\ Len(spectra) < MaxItems
    /\ LET s == canvas_add_lasso(CanvasState, c_list) IN
        /\ SetCanvas(s)
        /\ hist' = CanvasAdded(s)
    /\ UNCHANGED <<app, other_vars, cube_vars, picker_vars>>

\* a click on the line of a spectrum on the axis
CanvasPick(id) ==
    /\ app = "specview"
    /\ Artist("line", id) \in spec_axis
    /\ SetCanvas(on_pick(CanvasState, id))
    /\ UNCHANGED <<app, other_vars, hist, cube_vars, picker_vars>>

CanvasSetSpectrumName(text) ==
    /\ app = "specview"
    /\ edit_window # 0
    /\ SetCanvas(canvas_set_spectrum_name(CanvasState, text))
    /\ UNCHANGED <<app, other_vars, hist, cube_vars, picker_vars>>

CanvasDeleteSpectrum ==
    /\ app = "specview"
    /\ edit_window # 0
    /\ SetCanvas(canvas_delete_spectrum(CanvasState))
    /\ hist' = HistDelete(hist)
    /\ UNCHANGED <<app, other_vars, cube_vars, picker_vars>>

CanvasCloseEditWindow ==
    /\ app = "specview"
    /\ edit_window # 0
    /\ SetCanvas(delete_highlight(CanvasState))
    /\ UNCHANGED <<app, other_vars, hist, cube_vars, picker_vars>>

\* toolbar action "Clear"
CanvasClear ==
    /\ app \in {"specview", "rgbcanvas"}
    /\ SetCanvas(clear_spectra(CanvasState))
    /\ hist' = HistClear
    /\ UNCHANGED <<app, other_vars, cube_vars, picker_vars>>

CanvasInit ==
    /\ nspectra = 0
    /\ spectra = << >>
    /\ spectral_catalog = << >>
    /\ current_spectrum = 0
    /\ spec_axis = {}
    /\ legend = << >>
    /\ edit_window = 0

(***************************************************************************)
(* utils: the array functions, applied to small arrays.  An array element  *)
(* is a record: nan tells whether it is NaN, v is its value otherwise.     *)
(***************************************************************************)

\* np.argmax, np.argmin: the index from 0 of the first extreme element
ArgMax(shape) ==
    (CHOOSE i \in 1..Len(shape) :
        /\ \A j \in 1..Len(shape) : shape[j] <= shape[i]
        /\ \A j \in 1..(i - 1) : shape[j] < shape[i]) - 1
ArgMin(shape) ==
    (CHOOSE i \in 1..Len(shape) :
        /\ \A j \in 1..Len(shape) : shape[j] >= shape[i]
        /\ \A j \in 1..(i - 1) : shape[j] > shape[i]) - 1

NaNPixel == [nan |-> TRUE, v |-> 0]

\* the image np.arange(h * w).reshape(h, w) + 1, as the sequence of its rows;
\* an RGB image carries the same value in its three components, which no
\* function here looks at
TestImage(h, w) ==
    [r \in 1..h |-> [c \in 1..w |-> [nan |-> FALSE, v |-> (r - 1) * w + c]]]

\* np.full(shape, np.nan) for a shape (rows, cols) or (rows, cols, 3)
NaNFull(rows, cols) == [r \in 1..rows |-> [c \in 1..cols |-> NaNPixel]]

\* np.concat([a, b, c], axis) of two-dimensional (or rows x cols x 3)
\* arrays: axis 0 needs equal column counts, axis 1 equal row counts;
\* an array of zero columns still has its rows
Concat(pad, img, pad_cols, img_cols, axis) ==
    IF axis = 0
    THEN IF pad_cols = img_cols
         THEN [raised |-> "none", array |-> pad \o img \o pad]
         ELSE [raised |-> "ValueError", array |-> << >>]
    ELSE IF axis = 1 /\ Len(pad) = Len(img)
         THEN [raised |-> "none",
               array |-> [r \in 1..Len(img) |-> pad[r] \o img[r] \o pad[r]]]
         ELSE [raised |-> "ValueError", array |-> << >>]

\* a variant of square_image that reports the padding on both axes
square_image_offset_on_both_axes(img, is_rgb) ==
    LET shape == <<Len(img), Len(img[1])>>
        long_axis == ArgMax(shape)
        short_axis == ArgMin(shape)
        padding_length == (shape[long_axis + 1] - shape[short_axis + 1]) \div 2
        square_img == Concat(NaNFull(shape[long_axis + 1], padding_length),
                             img, padding_length, Len(img[1]), short_axis)
    IN  [raised |-> square_img.raised, square_img |-> square_img.array,
         offset |-> [x_offset |-> -padding_length,
                     y_offset |-> -padding_length]]

square_image(img, is_rgb) ==
    LET shape == IF is_rgb THEN <<Len(img), Len(img[1]), 3>>
                 ELSE <<Len(img), Len(img[1])>>
        long_axis == ArgMax(shape)
        short_axis == ArgMin(<<Len(img), Len(img[1])>>)
        padding_length == (shape[long_axis + 1] - shape[short_axis + 1]) \div 2
        square_padding == NaNFull(shape[long_axis + 1], padding_length)
        square_img == Concat(square_padding, img, padding_length,
                             Len(img[1]), short_axis)
        offset == IF long_axis < short_axis
                  THEN [x_offset |-> -padding_length, y_offset |-> 0]
                  ELSE [x_offset |-> 0, y_offset |-> -padding_length]
    IN  [raised |-> square_img.raised, square_img |-> square_img.array,
         offset |-> offset]

(***************************************************************************)
(* specview: RGBCanvas, the image canvas connected to the SpectralCanvas.  *)
(* Its handlers take and return the pair of both canvases.                 *)
(***************************************************************************)
RGBCanvasState == [spec_canv |-> CanvasState, state |-> rgbcanvas]

\* offsets, self.square_img = square_image(img_data, rgb=True) for an RGB
\* image of the cube's height and width
img_offsets == square_image(TestImage(Height, Width), TRUE).offset
square_img == square_image(TestImage(Height, Width), TRUE).square_img

\* A limit of the image axis is the fraction <<numerator, denominator>> in
\* lowest terms; the rounding of the floating-point numbers is not kept.
RECURSIVE GCD(_, _)
GCD(a, b) == IF b = 0 THEN a ELSE GCD(b, a % b)
Frac(n, d) ==
    LET g == GCD(IF n < 0 THEN -n ELSE n, d)
    IN  IF n = 0 THEN <<0, 1>> ELSE <<n \div g, d \div g>>
FracAdd(a, b) == Frac(a[1] * b[2] + b[1] * a[2], a[2] * b[2])
FracSub(a, b) == Frac(a[1] * b[2] - b[1] * a[2], a[2] * b[2])
FracMul(a, b) == Frac(a[1] * b[1], a[2] * b[2])
FracLeq(a, b) == a[1] * b[2] <= b[1] * a[2]

\* the limits after self.img_axis.imshow(self.square_img): half a pixel
\* around the square image, the y axis running downwards
imshow_xlim == <<Frac(-1, 2), Frac(2 * Len(square_img[1]) - 1, 2)>>
imshow_ylim == <<Frac(2 * Len(square_img) - 1, 2), Frac(-1, 2)>>

\* RGBCanvasSettings(zoom_speed=1.3) of run_app
zoom_speed == Frac(13, 10)

\* RGBCanvas.on_button_press; inside is FALSE when the pointer is outside
\* the image axis (event.xdata is None)
rgb_on_button_press(g, button, inside, xdata, ydata) ==
    IF ~inside THEN g
    ELSE
        LET c == <<xdata + img_offsets.x_offset, ydata + img_offsets.y_offset>>
            g1 == IF button = 2
                  THEN [g EXCEPT !.state.panning =
                            [is_active |-> TRUE, start_coord |-> c]]
                  ELSE g
        IN  IF button # 1 THEN g1
            ELSE IF g1.state.lasso_is_active THEN g1
            ELSE [g1 EXCEPT !.spec_canv = canvas_add_spectrum(@, c)]

\* RGBCanvas.on_button_release
rgb_on_button_release(g, button) ==
    IF button = 2 THEN [g EXCEPT !.state.panning.is_active = FALSE] ELSE g

\* CrosshairData.add_to_axes, with coord the zero point
add_to_axes(crosshair) ==
    [crosshair EXCEPT !.xline.ydata = 0, !.yline.xdata = 0,
                      !.scan_spectrum.ydata = pull_data(<<0, 0>>),
                      !.scan_spectrum.on_axis = TRUE]

\* RGBCanvas.on_key_press
rgb_on_key_press(g, key) ==
    LET g1 == IF key # "c" THEN g
              ELSE IF ~g.state.crosshair.is_active
              THEN [g EXCEPT !.state.crosshair =
                        add_to_axes([@ EXCEPT !.is_active = TRUE])]
              ELSE [g EXCEPT !.state.crosshair.is_active = FALSE,
                             !.state.crosshair.scan_spectrum.on_axis = FALSE]
    IN  IF key = "control"
        THEN [g1 EXCEPT !.state.lasso_is_active = TRUE,
                        !.state.selector_active = TRUE]
        ELSE g1

\* RGBCanvas.on_key_release
rgb_on_key_release(g, key) ==
    IF key = "control"
    THEN [g EXCEPT !.state.lasso_is_active = FALSE,
                   !.state.selector_active = FALSE]
    ELSE g

\* slots.motion_panning with sensitivity 0.5; the figure has no other axis
\* than the image axis
motion_panning(state, xdata, ydata) ==
    IF ~state.panning.is_active THEN state
    ELSE LET start_pt == state.panning.start_coord
             end_pt == <<xdata + img_offsets.x_offset,
                         ydata + img_offsets.y_offset>>
             dx_data == Frac(start_pt[1] - end_pt[1], 2)
             dy_data == Frac(start_pt[2] - end_pt[2], 2)
         IN  [state EXCEPT
                 !.xlim = <<FracAdd(@[1], dx_data), FracAdd(@[2], dx_data)>>,
                 !.ylim = <<FracAdd(@[1], dy_data), FracAdd(@[2], dy_data)>>,
                 !.panning.start_coord = end_pt]

\* slots.scrolling_zoom; button is the direction of the wheel
scrolling_zoom(state, inside, xdata, ydata, button) ==
    IF ~inside \/ button \notin {"up", "down"} THEN state
    ELSE LET fx == Frac(xdata, 1)
             fy == Frac(ydata, 1)
             \* 1 / scale
             by == IF button = "down" THEN zoom_speed
                   ELSE <<zoom_speed[2], zoom_speed[1]>>
             dx0 == FracMul(FracSub(fx, state.xlim[1]), by)
             dx1 == FracMul(FracSub(state.xlim[2], fx), by)
             dy0 == FracMul(FracSub(fy, state.ylim[1]), by)
             dy1 == FracMul(FracSub(state.ylim[2], fy), by)
         IN  [state EXCEPT !.xlim = <<FracSub(fx, dx0), FracAdd(fx, dx1)>>,
                           !.ylim = <<FracSub(fy, dy0), FracAdd(fy, dy1)>>]

\* RGBCanvas.on_scroll; slots_are_functions as in on_motion below
rgb_on_scroll(g, inside, xdata, ydata, button, slots_are_functions) ==
    IF slots_are_functions
    THEN [g EXCEPT !.state = scrolling_zoom(@, inside, xdata, ydata, button)]
    ELSE [g EXCEPT !.spec_canv = Raise(@, "TypeError")]

\* the body of slots.crosshairs on the ImageState, and what it raises, for
\* a call that binds all six parameters
crosshairs(state, xdata, ydata) ==
    IF state.crosshair.is_active
    THEN LET data_coords == <<xdata + img_offsets.x_offset,
                              ydata + img_offsets.y_offset>>
             s1 == [state EXCEPT
                       !.crosshair.xline = [visible |-> TRUE, ydata |-> ydata],
                       !.crosshair.yline = [visible |-> TRUE, xdata |-> xdata],
                       !.crosshair.scan_spectrum.visible = TRUE]
         IN  IF CanPull(data_coords)
             THEN [state |-> [s1 EXCEPT !.crosshair.scan_spectrum.ydata =
                                            pull_data(data_coords)],
                   raised |-> "none"]
             ELSE [state |-> s1, raised |-> "IndexError"]
    ELSE [state |-> [state EXCEPT !.crosshair.xline.visible = FALSE,
                                  !.crosshair.yline.visible = FALSE,
                                  !.crosshair.scan_spectrum.visible = FALSE],
          raised |-> "none"]

\* RGBCanvas.on_motion; inside is FALSE when the pointer is outside the
\* image axis (event.xdata is None).  The call of crosshairs passes five
\* arguments for six parameters (wvl is left out), so the call raises
\* TypeError before the body of crosshairs runs and before draw_idle.
\* slots_are_functions tells what the names imported from specview.slots
\* are bound to: the functions (motion_panning has acted before the
\* TypeError), or the submodules of the same names (the call of
\* motion_panning raises TypeError itself)
rgb_on_motion(g, inside, xdata, ydata, slots_are_functions) ==
    IF ~inside THEN g
    ELSE [g EXCEPT !.state = IF slots_are_functions
                             THEN motion_panning(@, xdata, ydata) ELSE @,
                   !.spec_canv = Raise(@, "TypeError")]

\* LassoData.set_pixel_coords(display_image): the (x, y) of every pixel of
\* the image, row after row
set_pixel_coords(display_image) ==
    LET h == Len(display_image)
        w == Len(display_image[1])
    IN  [i \in 1..(h * w) |-> <<(i - 1) % w, (i - 1) \div w>>]

\* self.state.lasso.pixel_coords of the RGBCanvas
lasso_pixel_coords == set_pixel_coords(square_img)

\* a conversion of the selected indices that unravels them column after
\* column
selected_pixels_column_major(display_img, offsets, pixel_coords, region) ==
    LET h == Len(display_img)
        idxs == SelectSeq([i \in 1..Len(pixel_coords) |-> i - 1],
                          LAMBDA i : pixel_coords[i + 1] \in region)
    IN  [k \in 1..Len(idxs) |->
            <<(idxs[k] \div h) + offsets.x_offset,
              (idxs[k] % h) + offsets.y_offset>>]

\* the list selected_pixels of RGBCanvas.onselect, for the square image,
\* the offsets and the pixel grid of a canvas; region holds the points
\* (x, y) that the path of the vertices contains
selected_pixels(display_img, offsets, pixel_coords, region) ==
    LET h == Len(display_img)
        w == Len(display_img[1])
        \* idxs = np.nonzero(path.contains_points(lasso.pixel_coords))[0]
        idxs == SelectSeq([i \in 1..Len(pixel_coords) |-> i - 1],
                          LAMBDA i : pixel_coords[i + 1] \in region)
        \* rows, cols = np.unravel_index(idxs, (h, w))
        rows == [k \in 1..Len(idxs) |-> idxs[k] \div w]
        cols == [k \in 1..Len(idxs) |-> idxs[k] % w]
    IN  [k \in 1..Len(idxs) |->
            <<cols[k] + offsets.x_offset, rows[k] + offsets.y_offset>>]

\* an onselect that counts pixels from where the last panning started
rgb_onselect_from_pan_start(g, region) ==
    LET from_image == selected_pixels(square_img, img_offsets,
                                      lasso_pixel_coords, region)
    IN  [g EXCEPT !.spec_canv = canvas_add_lasso(@,
            [k \in 1..Len(from_image) |->
                <<from_image[k][1] - g.state.panning.start_coord[1],
                  from_image[k][2] - g.state.panning.start_coord[2]>>])]

\* RGBCanvas.onselect
rgb_onselect(g, region) ==
    [g EXCEPT !.spec_canv = canvas_add_lasso(@,
        selected_pixels(square_img, img_offsets, lasso_pixel_coords, region))]

(***************************************************************************)
(* specview: events of the RGBCanvas.                                      *)
(***************************************************************************)
\* (x, y) of the pointer on the square image: on the last image pixel, on
\* the padded border before the image and on the one behind it.
RGBPositions ==
    {<<Width - 1 - img_offsets.x_offset, Height - 1 - img_offsets.y_offset>>,
     <<0, 0>>,
     <<Width - img_offsets.x_offset, Height - 1 - img_offsets.y_offset>>}

\* button and position of a press: the left button anywhere, the middle and
\* the right button on the image
RGBPresses ==
    {<<1, pos>> : pos \in RGBPositions}
        \cup {<<2, <<Width - 1 - img_offsets.x_offset, 0>> >>,
              <<3, <<Width - 1 - img_offsets.x_offset, 0>> >>}

Keys == {"control", "shift"}

\* a lasso session: the middle button is pressed on the image and the
\* pointer moves one pixel to the left of it; the wheel turns over a pixel
\* of the square image
LassoPresses == {<<2, <<Width - 1 - img_offsets.x_offset, 0>> >>}
LassoPositions == {<<Width - 2 - img_offsets.x_offset, 0>>}
ScrollPositions == {<<Len(square_img[1]) \div 2, 1>>}

\* every limit of the image axis is within MaxView of where imshow put it
ViewBounded(state) ==
    \A i \in 1..2 :
        /\ FracLeq(FracSub(state.xlim[i], imshow_xlim[i]), Frac(MaxView, 1))
        /\ FracLeq(FracSub(imshow_xlim[i], state.xlim[i]), Frac(MaxView, 1))
        /\ FracLeq(FracSub(state.ylim[i], imshow_ylim[i]), Frac(MaxView, 1))
        /\ FracLeq(FracSub(imshow_ylim[i], state.ylim[i]), Frac(MaxView, 1))

\* points inside a lasso: none, the first two pixels of the image's first
\* row, the last pixel of that row with a point right of the square
\* image, and the first pixel of the image with the pixel of the padded
\* border before it
RGBLassos ==
    {{},
     {<<0 - img_offsets.x_offset, 0 - img_offsets.y_offset>>,
      <<1 - img_offsets.x_offset, 0 - img_offsets.y_offset>>},
     {<<Width - 1 - img_offsets.x_offset, 0 - img_offsets.y_offset>>,
      <<Len(square_img[1]), 0>>},
     {<<0 - img_offsets.x_offset, 0 - img_offsets.y_offset>>,
      <<0 - img_offsets.x_offset - 1, 0 - img_offsets.y_offset>>}}

SetRGBCanvas(g) ==
    /\ SetCanvas(g.spec_canv)
    /\ rgbcanvas' = g.state

\* the lassos of a lasso session: the two of RGBLassos that hold no pixel of
\* the padded border before the image
LassoSessionLassos ==
    {region \in RGBLassos :
        /\ region # {}
        /\ \A c \in region : c[1] >= 0 - img_offsets.x_offset}

\* spectra created in one run of this viewer
MaxSpectra == IF app = "lasso" THEN MaxSelections ELSE MaxItems

\* the first lasso of a lasso session has been selected again
LassoRepeated(h) ==
    \E k \in 2..Len(h.lassos) : h.lassos[k].vertices = h.lassos[1].vertices

\* the history after an event of this kind in a lasso session
LassoEvent(h, kind) ==
    IF app = "lasso" /\ h.lassos # << >> /\ ~LassoRepeated(h)
    THEN [h EXCEPT !.events = @ \cup {kind}]
    ELSE h

\* the history after onselect(region) has led from hist to h
LassoSelected(h, s, region) ==
    IF app = "lasso" /\ Len(s.spectra) > Len(spectra)
    THEN [(IF h.lassos # << >> /\ h.lassos[1].vertices # region
           THEN LassoEvent(h, "selection") ELSE h)
          EXCEPT !.lassos = Append(@,
                    [vertices |-> region,
                     pixels |-> s.spectra[Len(s.spectra)].pixel_coords])]
    ELSE h

RGBButtonPress(press, inside) ==
    /\ \/ app = "rgbcanvas" /\ press \in RGBPresses
       \/ app = "lasso" /\ press \in LassoPresses
    /\ Len(spectra) < MaxSpectra
    /\ LET g == rgb_on_button_press(RGBCanvasState, press[1], inside,
                                    press[2][1], press[2][2]) IN
        /\ SetRGBCanvas(g)
        /\ hist' = IF inside /\ press[1] = 1 /\ ~rgbcanvas.lasso_is_active
                   THEN CanvasAdded(g.spec_canv) ELSE hist
    /\ UNCHANGED <<app, call, imdisplay, im_event, rgb, cube_vars, picker_vars>>

RGBButtonRelease(button) ==
    /\ app = "rgbcanvas" \/ (app = "lasso" /\ button = 2)
    /\ SetRGBCanvas(rgb_on_button_release(RGBCanvasState, button))
    /\ UNCHANGED hist
    /\ UNCHANGED <<app, call, imdisplay, im_event, rgb, cube_vars, picker_vars>>

RGBKeyPress(key) ==
    /\ app = "rgbcanvas" \/ (app = "lasso" /\ key \in {"control", "c"})
    /\ SetRGBCanvas(rgb_on_key_press(RGBCanvasState, key))
    /\ hist' = IF key = "c" THEN LassoEvent(hist, "crosshair") ELSE hist
    /\ UNCHANGED <<app, call, imdisplay, im_event, rgb, cube_vars, picker_vars>>

RGBKeyRelease(key) ==
    /\ app = "rgbcanvas" \/ (app = "lasso" /\ key = "control")
    /\ SetRGBCanvas(rgb_on_key_release(RGBCanvasState, key))
    /\ UNCHANGED hist
    /\ UNCHANGED <<app, call, imdisplay, im_event, rgb, cube_vars, picker_vars>>

RGBMotion(pos, inside, slots_are_functions) ==
    /\ \/ app = "rgbcanvas" /\ pos \in RGBPositions
       \/ app = "lasso" /\ pos \in LassoPositions /\ inside
    /\ LET g == rgb_on_motion(RGBCanvasState, inside, pos[1], pos[2],
                              slots_are_functions) IN
        /\ ViewBounded(g.state)
        /\ SetRGBCanvas(g)
        /\ hist' = IF <<g.state.xlim, g.state.ylim>>
                        # <<rgbcanvas.xlim, rgbcanvas.ylim>>
                   THEN LassoEvent(hist, "pan") ELSE hist
    /\ UNCHANGED <<app, call, imdisplay, im_event, rgb, cube_vars, picker_vars>>

\* the wheel turns over the canvas
RGBScroll(pos, button, inside, slots_are_functions) ==
    /\ app = "lasso"
    /\ LET g == rgb_on_scroll(RGBCanvasState, inside, pos[1], pos[2], button,
                              slots_are_functions) IN
        /\ ViewBounded(g.state)
        /\ SetRGBCanvas(g)
        /\ hist' = IF <<g.state.xlim, g.state.ylim>>
                        # <<rgbcanvas.xlim, rgbcanvas.ylim>>
                   THEN LassoEvent(hist, "zoom") ELSE hist
    /\ UNCHANGED <<app, call, imdisplay, im_event, rgb, cube_vars, picker_vars>>

\* the lasso selector, when active, reports a finished lasso
RGBSelect(region) ==
    /\ \/ app = "rgbcanvas"
       \/ app = "lasso" /\ region \in LassoSessionLassos
    /\ rgbcanvas.selector_active
    /\ Len(spectra) < MaxSpectra
    /\ LET g == rgb_onselect(RGBCanvasState, region) IN
        /\ SetRGBCanvas(g)
        /\ hist' = LassoSelected(CanvasAdded(g.spec_canv), g.spec_canv, region)
    /\ UNCHANGED <<app, call, imdisplay, im_event, rgb, cube_vars, picker_vars>>

RGBCanvasInit ==
    rgbcanvas = [panning |-> [is_active |-> FALSE, start_coord |-> <<0, 0>>],
                 lasso_is_active |-> FALSE, selector_active |-> FALSE,
                 xlim |-> imshow_xlim, ylim |-> imshow_ylim,
                 crosshair |->
                    [is_active |-> FALSE,
                     xline |-> [visible |-> TRUE, ydata |-> 0],
                     yline |-> [visible |-> TRUE, xdata |-> 0],
                     scan_spectrum |-> [visible |-> TRUE, ydata |-> << >>,
                                        on_axis |-> FALSE]]]

(***************************************************************************)
(* picker: SpectrumDislpay (plain matplotlib figure).  fig and plot_ax are *)
(* created together by show() and never reset to None.                     *)
(***************************************************************************)
PickerState ==
    [single_spec_count |-> single_spec_count,
     mean_spec_count |-> mean_spec_count, plotted |-> plotted,
     cached_plots |-> cached_plots, currently_plotted |-> currently_plotted,
     fig |-> fig, fig_open |-> fig_open, ax_artists |-> ax_artists,
     save_dialogs |-> save_dialogs, raised |-> "none"]

\* f"AREA_{self._plot_state.mean_spec_count:02d}"
MeanName(n) == "AREA_" \o Format02d(n)

\* the Line2D of plotted object id, on plot_ax ("current") or on the axis
\* of a figure that show() has replaced ("old"); the artists of an
\* errorbar() call belong to no object
AxLine(ax, id) == [t |-> "line", ax |-> ax, id |-> id]
AxErrorbar(ax) == [t |-> "errorbar", ax |-> ax, id |-> 0]

\* SpectrumDislpay.show: a new figure with a new, empty plot_ax
show(s) ==
    [s EXCEPT !.fig = TRUE, !.fig_open = TRUE,
              !.ax_artists = {[a EXCEPT !.ax = "old"] : a \in @}]

\* SpectrumDislpay.is_open
is_open(s) == s.fig /\ s.fig_open

\* SpectrumDislpay.close
close(s) == [s EXCEPT !.fig_open = FALSE]

\* SpectrumDislpay.toggle
toggle(s) == IF is_open(s) THEN close(s) ELSE show(s)

\* the registration shared by plot and plot_average
Register(s, spectrum) ==
    LET id == Len(s.plotted) + 1
    IN  [s EXCEPT !.ax_artists = @ \cup {AxLine("current", id)},
                  !.plotted = Append(@, spectrum),
                  !.cached_plots = IF s.currently_plotted # 0
                                   THEN Append(@, s.currently_plotted) ELSE @,
                  !.currently_plotted = id]

\* SpectrumDislpay.plot(x, y)
plot(s, x, y) ==
    LET s1 == [s EXCEPT !.single_spec_count = @ + 1]
    IN  IF ~CubeHas(y, x) THEN Raise(s1, "IndexError")
        ELSE IF ~s1.fig THEN Raise(s1, "PlotNotInitializedError")
        ELSE Register(s1, [name |-> SpectrumName(s1.single_spec_count),
                           kind |-> "single",
                           spec_array |-> <<CubeAt(y, x)>>])

\* SpectrumDislpay.plot_average(x_vals, y_vals, include_error_bars):
\* data[x_vals, y_vals, :] takes x_vals as rows
plot_average(s, x_vals, y_vals, include_error_bars) ==
    LET s1 == [s EXCEPT !.mean_spec_count = @ + 1]
    IN  IF \E i \in 1..Len(x_vals) : ~CubeHas(x_vals[i], y_vals[i])
        THEN Raise(s1, "IndexError")
        ELSE IF ~s1.fig THEN Raise(s1, "PlotNotInitializedError")
        ELSE IF include_error_bars
        THEN Raise([s1 EXCEPT !.ax_artists = @ \cup {AxErrorbar("current")}],
                   "ValueError")
        ELSE Register(s1, [name |-> MeanName(s1.mean_spec_count),
                           kind |-> "mean",
                           spec_array |-> [i \in 1..Len(x_vals) |->
                                              CubeAt(x_vals[i], y_vals[i])]])

\* [i.plot_obj.remove() for i in cached_plots]: stops at the first object
\* whose line is on no axis (null(), or a line removed earlier in the loop)
RECURSIVE RemoveCached(_, _)
RemoveCached(s, i) ==
    IF i > Len(s.cached_plots) THEN s
    ELSE LET id == s.cached_plots[i]
             on == {a \in s.ax_artists : a.t = "line" /\ a.id = id}
         IN  IF id = 0 THEN Raise(s, "NotImplementedError")
             ELSE IF on = {} THEN Raise(s, "ValueError")
             ELSE RemoveCached([s EXCEPT !.ax_artists = @ \ on], i + 1)

\* SpectrumDislpay.clear_spectra
picker_clear_spectra(s) ==
    LET s1 == RemoveCached(s, 1)
    IN  IF Failed(s1) THEN s1
        ELSE LET s2 == [s1 EXCEPT !.cached_plots = << >>,
                                  !.single_spec_count = 0,
                                  !.mean_spec_count = 0]
             IN  IF ~s2.fig THEN Raise(s2, "PlotNotInitializedError")
                 ELSE s2

\* SpectrumDislpay.save_current_spectra up to the file dialog: the current
\* spectrum is appended to cached_plots, then asksaveasfilename waits for
\* the answer while the windows go on handling events
save_current_spectra_ask(s) ==
    [s EXCEPT !.cached_plots = Append(@, s.currently_plotted),
              !.save_dialogs = @ + 1]

\* SpectrumDislpay.save_current_spectra after the file dialog has returned
\* file ("" when it was cancelled).  Of the HDF5 file only the failure is
\* kept: h5.File raises OSError for the empty file name, and
\* create_dataset raises ValueError for a name that the group already has
save_current_spectra_write(s, file) ==
    LET s1 == [s EXCEPT !.save_dialogs = @ - 1]
        name(i) == IF s1.cached_plots[i] = 0 THEN "NULL"
                   ELSE s1.plotted[s1.cached_plots[i]].name
    IN  IF file = "" THEN Raise(s1, "OSError")
        ELSE IF \E i, j \in 1..Len(s1.cached_plots) : i < j /\ name(i) = name(j)
        THEN Raise(s1, "ValueError")
        ELSE s1

(***************************************************************************)
(* picker: events.                                                         *)
(***************************************************************************)
\* (x, y) of a click: inside the cube and right of it.
PickerPixels == {<<Width - 1, Height - 1>>, <<Width, 0>>}

\* (x_vals, y_vals) of a lasso: no pixel, row 0 columns 0 and 1, and a
\* selection that only fits when y_vals is taken as the row.
PickerAreas ==
    {<< << >>, << >> >>, << <<0, 0>>, <<0, 1>> >>, << <<0>>, <<Height - 1>> >>}

SetPicker(s) ==
    /\ single_spec_count' = s.single_spec_count
    /\ mean_spec_count' = s.mean_spec_count
    /\ plotted' = s.plotted
    /\ cached_plots' = s.cached_plots
    /\ currently_plotted' = s.currently_plotted
    /\ fig' = s.fig
    /\ fig_open' = s.fig_open
    /\ ax_artists' = s.ax_artists
    /\ save_dialogs' = s.save_dialogs
    /\ raised' = s.raised

PickerRest == UNCHANGED <<app, other_vars, hist, cube_vars, canvas_vars>>

\* the shift key of the image window
PickerToggle ==
    /\ app = "picker"
    /\ SetPicker(toggle(PickerState))
    /\ PickerRest

PickerPlot(pos) ==
    /\ app = "picker"
    /\ single_spec_count + mean_spec_count < MaxItems
    /\ Len(plotted) < MaxItems
    /\ SetPicker(plot(PickerState, pos[1], pos[2]))
    /\ PickerRest

PickerPlotAverage(area, include_error_bars) ==
    /\ app = "picker"
    /\ single_spec_count + mean_spec_count < MaxItems
    /\ Len(plotted) < MaxItems
    /\ SetPicker(plot_average(PickerState, area[1], area[2],
                              include_error_bars))
    /\ PickerRest

\* button "Clear Spectra"
PickerClear ==
    /\ app \in {"picker", "imagedisplay"}
    /\ SetPicker(picker_clear_spectra(PickerState))
    /\ PickerRest

\* button "Save Plot Data": the handler runs up to the file dialog
PickerSave ==
    /\ app = "picker"
    /\ Len(cached_plots) < MaxItems
    /\ save_dialogs < MaxDialogs
    /\ SetPicker(save_current_spectra_ask(PickerState))
    /\ PickerRest

\* the answers of the file dialog: a file name, and "" for a cancelled dialog
SaveFiles == {"spectra.hdf5", ""}

\* a file dialog is answered and its handler runs to the end
PickerSaveAnswer(file) ==
    /\ app = "picker"
    /\ save_dialogs > 0
    /\ SetPicker(save_current_spectra_write(PickerState, file))
    /\ PickerRest

(***************************************************************************)
(* picker: ImageDisplay, the image window in front of a SpectrumDislpay.   *)
(* Its handlers take and return the pair of window state and display.      *)
(* RGBImageDisplay has the same handlers for buttons, keys and the lasso.  *)
(***************************************************************************)
ImageDisplayState == [specdisplay |-> PickerState, _state |-> imdisplay]

\* PanningState with is_panning False, pan_start None, pan_ax None
NoPanning == [is_panning |-> FALSE, pan_start |-> << >>, pan_ax |-> "None"]

\* int(round(v)) for v = h / 2: Python rounds a half to the even neighbour
RoundOfHalves(h) ==
    IF h % 2 = 0 THEN h \div 2
    ELSE IF ((h - 1) \div 2) % 2 = 0 THEN (h - 1) \div 2 ELSE (h + 1) \div 2

\* ImageDisplay.on_button_press; event.xdata and event.ydata in half pixels
im_on_button_press(d, event) ==
    LET d1 == IF event.button = 2 /\ event.inaxes = "display_ax"
              THEN [d EXCEPT !._state.panning =
                        [is_panning |-> TRUE,
                         pan_start |-> <<event.x, event.y>>,
                         pan_ax |-> event.inaxes]]
              ELSE d
    IN  IF /\ event.button = 1
           /\ event.inaxes = "display_ax"
           /\ d1._state.collect_spectra
           /\ ~d1._state.collect_area
        THEN LET d2 == [d1 EXCEPT !.specdisplay =
                            plot(@, RoundOfHalves(event.xdata),
                                 RoundOfHalves(event.ydata))]
             IN  IF Failed(d2.specdisplay) THEN d2
                 ELSE [d2 EXCEPT !._state.patches = 1]
        ELSE d1

\* a release that clears the flag but keeps the anchor and the target axis
im_on_button_release_keeps_anchor(d, event) ==
    IF event.button = 2
    THEN [d EXCEPT !._state.panning.is_panning = FALSE]
    ELSE d

\* ImageDisplay.on_button_release
im_on_button_release(d, event) ==
    IF event.button = 2 THEN [d EXCEPT !._state.panning = NoPanning] ELSE d

\* ImageDisplay.on_key_press
im_on_key_press(d, event) ==
    LET d1 == IF event.key # "shift" THEN d
              ELSE IF ~d._state.collect_spectra
              THEN [d EXCEPT !._state.collect_spectra = TRUE,
                             !._state.is_scanning = TRUE,
                             !.specdisplay = toggle(@)]
              ELSE [d EXCEPT !._state.collect_spectra = FALSE,
                             !._state.is_scanning = FALSE,
                             !._state.patches = 0,
                             !.specdisplay = toggle(@)]
    IN  IF event.key = "control" /\ d1._state.collect_spectra
        THEN [d1 EXCEPT !._state.collect_area = TRUE,
                        !._state.selector_active = TRUE]
        ELSE d1

\* ImageDisplay.on_key_release
im_on_key_release(d, event) ==
    IF event.key = "control" /\ d._state.collect_spectra
    THEN [d EXCEPT !._state.collect_area = FALSE,
                   !._state.selector_active = FALSE]
    ELSE d

\* motion_actions.apply_panning, as far as it changes the panning state
apply_panning(event, panning_state) ==
    IF ~panning_state.is_panning THEN panning_state
    ELSE IF panning_state.pan_start = << >> \/ panning_state.pan_ax = "None"
    THEN panning_state
    ELSE IF event.inaxes # panning_state.pan_ax THEN panning_state
    ELSE [panning_state EXCEPT !.pan_start = <<event.x, event.y>>]

\* motion_actions.apply_crosshairs on the ImagePlotState; event.xdata and
\* event.ydata in half pixels.  The positions of the two guide lines and
\* the data of the scan line are kept, and what was raised.
apply_crosshairs(event, state) ==
    IF /\ state.is_scanning
       /\ event.inaxes = "display_ax"
       /\ event.ydata > 0
       /\ event.ydata < 2 * Height
    THEN LET s1 == [state EXCEPT
                       !.xcrosshair = [visible |-> TRUE, xdata |-> event.xdata],
                       !.ycrosshair = [visible |-> TRUE, ydata |-> event.ydata]]
             pixel_coords == <<IntOfHalves(event.ydata), IntOfHalves(event.xdata)>>
         IN  IF pixel_coords[1] > 0 /\ pixel_coords[2] > 0
             THEN IF CubeHas(pixel_coords[1], pixel_coords[2])
                  THEN [state |-> [s1 EXCEPT !.data_line.ydata =
                                      CubeAt(pixel_coords[1], pixel_coords[2])],
                        raised |-> "none"]
                  ELSE [state |-> s1, raised |-> "IndexError"]
             ELSE [state |-> s1, raised |-> "none"]
    ELSE [state |-> [state EXCEPT !.xcrosshair.visible = FALSE,
                                  !.ycrosshair.visible = FALSE],
          raised |-> "none"]

\* ImageDisplay.on_motion
im_on_motion(d, event) ==
    LET d1 == [d EXCEPT !._state.panning = apply_panning(event, @)]
        scan == apply_crosshairs(event, d1._state)
    IN  [d1 EXCEPT !._state = scan.state,
                   !.specdisplay = IF scan.raised = "none" THEN @
                                   ELSE Raise(@, scan.raised)]

\* ImageDisplay.onselect; inside are the (x, y) of self.pixel_coords that
\* the lasso path contains, in the order of pixel_coords
im_onselect(d, inside) ==
    LET idxs == [i \in 1..Len(inside) |-> inside[i][2] * Width + inside[i][1]]
        \* cols, rows = np.unravel_index(idxs, (shape[0], shape[1]))
        cols == [i \in 1..Len(idxs) |-> idxs[i] \div Width]
        rows == [i \in 1..Len(idxs) |-> idxs[i] % Width]
    IN  [d EXCEPT !.specdisplay = plot_average(@, cols, rows, FALSE)]

(***************************************************************************)
(* picker: events of the ImageDisplay window.                              *)
(***************************************************************************)
\* button events: the left button on the last pixel of the image and on
\* the right edge of the image axis, the middle button on the image and on
\* the scanning axis, the right button on the image
ImButtonEvents ==
    LET at(button, inaxes, xdata) ==
            [button |-> button, inaxes |-> inaxes, x |-> 40, y |-> 30,
             xdata |-> xdata, ydata |-> 2 * (Height - 1)]
    IN  {at(1, "display_ax", 2 * (Width - 1)),
         at(1, "display_ax", 2 * Width - 1),
         at(2, "display_ax", 2 * (Width - 1)),
         at(2, "scanning_ax", 0),
         at(3, "display_ax", 2 * (Width - 1))}

\* the pointer moves to the last pixel of the image and to the scanning axis
ImMotionEvents ==
    {[inaxes |-> "display_ax", x |-> 44, y |-> 30,
      xdata |-> 2 * (Width - 1), ydata |-> 2 * (Height - 1)],
     [inaxes |-> "scanning_ax", x |-> 90, y |-> 30, xdata |-> 2, ydata |-> 2]}

\* and, in a session without button presses, also above the image, to the
\* right of the image, off both axes (where xdata and ydata are None and
\* never read), and on the centre of the last pixel of column 0
ScanMotionEvents ==
    ImMotionEvents \cup
    {[inaxes |-> "display_ax", x |-> 40, y |-> 30,
      xdata |-> 0, ydata |-> 2 * (Height - 1)],
     [inaxes |-> "display_ax", x |-> 44, y |-> 10,
      xdata |-> 2 * (Width - 1), ydata |-> -2],
     [inaxes |-> "display_ax", x |-> 50, y |-> 30,
      xdata |-> 2 * Width + 2, ydata |-> 2 * (Height - 1)],
     [inaxes |-> "None", x |-> 0, y |-> 0, xdata |-> 0, ydata |-> 0]}

\* pixels (x, y) inside a finished lasso: none, and the last two of a column
ImLassos == {<< >>, << <<Width - 1, Height - 2>>, <<Width - 1, Height - 1>> >>}

SetImageDisplay(d) ==
    /\ SetPicker(d.specdisplay)
    /\ imdisplay' = d._state

ImButtonPress(event) ==
    /\ app = "imagedisplay"
    /\ im_event' = <<"button_press", event>>
    /\ single_spec_count + mean_spec_count < MaxItems
    /\ Len(plotted) < MaxItems
    /\ SetImageDisplay(im_on_button_press(ImageDisplayState, event))
    /\ UNCHANGED <<app, call, rgbcanvas, rgb, hist, cube_vars, canvas_vars>>

ImButtonRelease(event) ==
    /\ app = "imagedisplay"
    /\ im_event' = <<"button_release", event>>
    /\ SetImageDisplay(im_on_button_release(ImageDisplayState, event))
    /\ UNCHANGED <<app, call, rgbcanvas, rgb, hist, cube_vars, canvas_vars>>

ImKeyPress(event) ==
    /\ app \in {"imagedisplay", "scan"}
    /\ im_event' = <<"key_press", event>>
    /\ SetImageDisplay(im_on_key_press(ImageDisplayState, event))
    /\ UNCHANGED <<app, call, rgbcanvas, rgb, hist, cube_vars, canvas_vars>>

ImKeyRelease(event) ==
    /\ app \in {"imagedisplay", "scan"}
    /\ im_event' = <<"key_release", event>>
    /\ SetImageDisplay(im_on_key_release(ImageDisplayState, event))
    /\ UNCHANGED <<app, call, rgbcanvas, rgb, hist, cube_vars, canvas_vars>>

ImMotion(event) ==
    /\ \/ app = "imagedisplay" /\ event \in ImMotionEvents
       \/ app = "scan"
    /\ im_event' = <<"motion_notify", event>>
    /\ SetImageDisplay(im_on_motion(ImageDisplayState, event))
    /\ UNCHANGED <<app, call, rgbcanvas, rgb, hist, cube_vars, canvas_vars>>

\* the lasso selector, when active, reports a finished lasso
ImSelect(inside) ==
    /\ app = "imagedisplay"
    /\ im_event' = <<"onselect", inside>>
    /\ imdisplay.selector_active
    /\ single_spec_count + mean_spec_count < MaxItems
    /\ Len(plotted) < MaxItems
    /\ SetImageDisplay(im_onselect(ImageDisplayState, inside))
    /\ UNCHANGED <<app, call, rgbcanvas, rgb, hist, cube_vars, canvas_vars>>

ImageDisplayInit ==
    /\ im_event = <<"none", << >> >>
    /\ imdisplay = [panning |-> NoPanning, collect_spectra |-> FALSE,
                 collect_area |-> FALSE, selector_active |-> FALSE,
                 is_scanning |-> FALSE, patches |-> 0,
                 xcrosshair |-> [visible |-> TRUE, xdata |-> 0],
                 ycrosshair |-> [visible |-> TRUE, ydata |-> 0],
                 data_line |-> [visible |-> TRUE,
                                ydata |-> [b \in 1..Len(cube[1][1]) |-> 1]]]

(***************************************************************************)
(* rgbimage: ThreeBandRGB, the three-band composite of the cube.  The      *)
(* handlers take and return the object with the field raised added.        *)
(* None is << >>; a float of a normalised image is the fraction            *)
(* <<numerator, denominator>> that the division is made of.                *)
(***************************************************************************)
BandCount == Len(cube[1][1])

\* self.data_cube[:, :, bandidx]
Band(bandidx) ==
    [row \in 1..Height |->
        [col \in 1..Width |-> cube[row][col][PyIndex(bandidx, BandCount) + 1]]]

\* utils.extrema(self.data_cube[..., bandidx])
extrema(bandidx) ==
    LET values == {Band(bandidx)[row][col] : row \in 1..Height, col \in 1..Width}
    IN  <<CHOOSE v \in values : \A w \in values : v <= w,
          CHOOSE v \in values : \A w \in values : v >= w>>

\* mcolors.Normalize(vmin, vmax, clip=True)(image, clip=True), for vmin <= vmax
Normalize(norm, image) ==
    [row \in 1..Height |->
        [col \in 1..Width |->
            IF norm[1] = norm[2] \/ image[row][col] <= norm[1] THEN <<0, 1>>
            ELSE IF image[row][col] >= norm[2] THEN <<1, 1>>
            ELSE <<image[row][col] - norm[1], norm[2] - norm[1]>>]]

\* ThreeBandRGB._update_norm
_update_norm(s, color, low, high) ==
    [s EXCEPT !._norms[color] = <<low, high>>,
              !._cache[color] = << >>,
              !._cache["rgb"] = << >>]

\* the setters rlow, glow, blow
low_setter(s, color, value) ==
    LET s1 == [s EXCEPT !._low[color] = value]
    IN  _update_norm(s1, color, s1._low[color], s1._high[color])

\* the setters rhigh, ghigh, bhigh
high_setter(s, color, value) ==
    LET s1 == [s EXCEPT !._high[color] = value]
    IN  _update_norm(s1, color, s1._low[color], s1._high[color])

\* the properties (rlow, rhigh), (glow, ghigh), (blow, bhigh): blow returns
\* self._glow and bhigh returns self._ghigh
bounds_getter(s, color) ==
    IF color = "r" THEN <<s._low["r"], s._high["r"]>>
    ELSE <<s._low["g"], s._high["g"]>>

\* ThreeBandRGB._update_band: "r" assigns both fields, "g" assigns _glow and
\* goes through the setter ghigh, "b" goes through the setters blow and bhigh
_update_band(s, color, bandidx) ==
    IF ~InRange(bandidx, BandCount) THEN Raise(s, "IndexError")
    ELSE
        LET low == extrema(bandidx)[1]
            high == extrema(bandidx)[2]
            s1 == IF color = "r"
                  THEN [s EXCEPT !._low["r"] = low, !._high["r"] = high]
                  ELSE IF color = "g"
                  THEN high_setter([s EXCEPT !._low["g"] = low], "g", high)
                  ELSE high_setter(low_setter(s, "b", low), "b", high)
        IN  _update_norm(s1, color, low, high)

\* the setters ridx, gidx, bidx
idx_setter(s, color, value) ==
    _update_band([s EXCEPT !._idx[color] = value], color, value)

\* the properties red, green, blue
channel(s, color) ==
    IF s._cache[color] # << >> THEN s
    ELSE IF ~InRange(s._idx[color], BandCount) THEN Raise(s, "IndexError")
    ELSE [s EXCEPT !._cache[color] = Band(s._idx[color])]

\* the property scaled_rgb; the value read is _cache["rgb"] of the result
RECURSIVE ScaledChannels(_, _, _)
ScaledChannels(s, colors, scaled) ==
    IF colors = << >>
    THEN [s EXCEPT !._cache["rgb"] = scaled]
    ELSE LET color == Head(colors)
             s1 == channel(s, color)
         IN  IF Failed(s1) THEN s1
             ELSE IF s1._norms[color][1] > s1._norms[color][2]
             THEN Raise(s1, "ValueError")
             ELSE ScaledChannels(s1, Tail(colors),
                     Append(scaled, Normalize(s1._norms[color], s1._cache[color])))

scaled_rgb(s) ==
    IF s._cache["rgb"] # << >> THEN s ELSE ScaledChannels(s, <<"r", "g", "b">>, << >>)

\* color_slider.add_rgb_slider.update; val holds the three slider ranges
slider_update(s, val) ==
    LET r == high_setter(low_setter(s, "r", val[1][1]), "r", val[1][2])
        g == high_setter(low_setter(r, "g", val[2][1]), "g", val[2][2])
        b == high_setter(low_setter(g, "b", val[3][1]), "b", val[3][2])
    IN  scaled_rgb(b)

(***************************************************************************)
(* rgbimage: events.                                                       *)
(***************************************************************************)
\* band indices assigned: another band of the cube and the band count
BandIndices == {1, BandCount}

\* (color, value) of the assignments to a low and to a high bound: the
\* largest value of the cube as low bound, a small value as high bound
LowAssignments == {<<"r", extrema(1)[2]>>, <<"g", extrema(1)[2]>>}
HighAssignments == {<<"b", 4>>}

\* ranges of the three sliders, each inside the slider's limits: the red
\* range pulled to one point, the other two at the limits of band 1
SliderRanges == {<<<<extrema(0)[2], extrema(0)[2]>>, extrema(1), extrema(1)>>}

SetThreeBandRGB(s) ==
    /\ rgb' = [f \in DOMAIN rgb |-> s[f]]
    /\ raised' = s.raised
    /\ UNCHANGED <<app, call, rgbcanvas, imdisplay, im_event, hist, cube_vars,
                   canvas_vars, picker_vars>>

BandSetIdx(color, value) ==
    /\ app = "rgbimage"
    /\ SetThreeBandRGB(idx_setter(rgb @@ [raised |-> "none"], color, value))

BandSetLow(color, value) ==
    /\ app = "rgbimage"
    /\ SetThreeBandRGB(low_setter(rgb @@ [raised |-> "none"], color, value))

BandSetHigh(color, value) ==
    /\ app = "rgbimage"
    /\ SetThreeBandRGB(high_setter(rgb @@ [raised |-> "none"], color, value))

BandRead ==
    /\ app = "rgbimage"
    /\ SetThreeBandRGB(scaled_rgb(rgb @@ [raised |-> "none"]))

BandSliderUpdate(val) ==
    /\ app = "rgbimage"
    /\ SetThreeBandRGB(slider_update(rgb @@ [raised |-> "none"], val))

\* ThreeBandRGB(cube, 0, 1, 0) after __post_init__
\* (RGBImageDisplay.__init__ reads scaled_rgb for imshow)
ThreeBandRGBInit ==
    LET new ==
          [_idx |-> [r |-> 0, g |-> 1, b |-> 0],
           _low |-> [r |-> extrema(0)[1], g |-> extrema(1)[1], b |-> extrema(0)[1]],
           _high |-> [r |-> extrema(0)[2], g |-> extrema(1)[2], b |-> extrema(0)[2]],
           _norms |-> [r |-> extrema(0), g |-> extrema(1), b |-> extrema(0)],
           _cache |-> [r |-> << >>, g |-> << >>, b |-> << >>, rgb |-> << >>]]
    IN  rgb = IF app = "rgbdisplay"
              THEN [f \in DOMAIN new |-> scaled_rgb(new @@ [raised |-> "none"])[f]]
              ELSE new

PickerInit ==
    /\ single_spec_count = 0
    /\ mean_spec_count = 0
    /\ plotted = << >>
    /\ cached_plots = << >>
    /\ currently_plotted = 0
    /\ fig = FALSE
    /\ fig_open = FALSE
    /\ ax_artists = {}
    /\ save_dialogs = 0

CubeviewInit ==
    /\ _count = 0
    /\ _editing = FALSE
    /\ edit_win = 0
    /\ plot_items = << >>
    /\ spec_plot = {}
    /\ spec_legend = {}
    /\ spectrum_cache = EmptyDict
    /\ polygon_cache = EmptyDict
    /\ imview = {}
    /\ _drawing = FALSE

\* np.abs on integers
Abs(x) == IF x < 0 THEN -x ELSE x

\* a variant of find_wvl that returns the last of several closest indices
find_wvl_last_tie(wvls, targetwvl) ==
    LET idx == (Len(wvls) - 1)
                 - ArgMin([i \in 1..Len(wvls) |->
                              Abs(wvls[Len(wvls) + 1 - i] - targetwvl)])
    IN  <<idx, wvls[idx + 1]>>

find_wvl(wvls, targetwvl) ==
    LET idx == ArgMin([i \in 1..Len(wvls) |-> Abs(wvls[i] - targetwvl)])
    IN  <<idx, wvls[idx + 1]>>

(***************************************************************************)
(* utils: the statistics of an area selection, in the cube's float32.  A   *)
(* positive float32 is [m, e] with value m * 2^e and 2^23 <= m < 2^24.     *)
(***************************************************************************)

\* the float32 nearest to M * 2^e (ties to even); sticky tells that bits
\* below M were cut off
F32Round(M, e, sticky) ==
    LET k == CHOOSE i \in 0..8 :
                 /\ M \div 2^i < 2^24
                 /\ \A j \in 0..(i - 1) : M \div 2^j >= 2^24
    IN  IF k = 0
        THEN LET j == CHOOSE i \in 0..24 :
                          M * 2^i >= 2^23 /\ M * 2^i < 2^24
             IN  [m |-> M * 2^j, e |-> e - j]
        ELSE LET q == M \div 2^k
                 r == M % 2^k
                 half == 2^(k - 1)
                 up == r > half \/ (r = half /\ (sticky \/ q % 2 = 1))
                 q1 == IF up THEN q + 1 ELSE q
             IN  IF q1 = 2^24 THEN [m |-> 2^23, e |-> e + k + 1]
                 ELSE [m |-> q1, e |-> e + k]

\* float32 a + b: the smaller operand is aligned with two extra bits and
\* a sticky bit
F32Add(a, b) ==
    LET big == IF a.e >= b.e THEN a ELSE b
        small == IF a.e >= b.e THEN b ELSE a
        d == big.e - small.e
    IN  IF d < 2 THEN F32Round(big.m * 2^d + small.m, small.e, FALSE)
        ELSE IF d > 26 THEN big
        ELSE F32Round(big.m * 4 + small.m \div 2^(d - 2), big.e - 2,
                      small.m % 2^(d - 2) # 0)

\* float32 a / n for a count n
F32DivInt(a, n) ==
    F32Round((a.m * 64) \div n, a.e - 6, (a.m * 64) % n # 0)

\* the float32 of a positive integer of the cube
F32Of(i) == F32Round(i, 0, FALSE)

RECURSIVE F32Sum(_, _, _)
F32Sum(spec_array, band, k) ==
    IF k = 1 THEN spec_array[1][band]
    ELSE F32Add(F32Sum(spec_array, band, k - 1), spec_array[k][band])

\* np.mean(spec_array, axis=0) of an (n, bands) float32 array, n >= 1
np_mean(spec_array) ==
    [band \in 1..Len(spec_array[1]) |->
        F32DivInt(F32Sum(spec_array, band, Len(spec_array)), Len(spec_array))]

\* np.std(spec_array, axis=0, ddof=1), by kind of value: the sum of the
\* squared deviations from the mean over n - 1; 0 / 0 is NaN
np_std(spec_array) ==
    [band \in 1..Len(spec_array[1]) |->
        IF \A i \in 1..Len(spec_array) :
               spec_array[i][band] = np_mean(spec_array)[band]
        THEN IF Len(spec_array) - 1 = 0 THEN "nan" ELSE "zero"
        ELSE IF Len(spec_array) - 1 = 0 THEN "inf" ELSE "positive"]

(***************************************************************************)
(* utils: events.  The functions keep no state, so one call is made.       *)
(***************************************************************************)

UtilsRest == UNCHANGED <<app, hist, rgbcanvas, imdisplay, im_event, rgb,
                         cube_vars, canvas_vars, picker_vars>>

SquareImage(h, w, is_rgb) ==
    /\ app = "utils" /\ call.fn = "none"
    /\ LET result == square_image(TestImage(h, w), is_rgb)
       IN  /\ call' = [fn |-> "square_image", args |-> <<h, w, is_rgb>>,
                       result |-> result]
           /\ raised' = result.raised
    /\ UtilsRest

\* wavelength arrays of one to MaxLen entries, in any order, with repeats
WavelengthArrays ==
    UNION {[1..n -> 1..MaxWvl] : n \in 1..MaxLen}

FindWvl(wvls, targetwvl) ==
    /\ app = "utils" /\ call.fn = "none"
    /\ call' = [fn |-> "find_wvl", args |-> <<wvls, targetwvl>>,
                result |-> find_wvl(wvls, targetwvl)]
    /\ raised' = "none"
    /\ UtilsRest

\* two-band float32 spectra: (1.0, 0.9) and (0.9, 1.0)
Reflectances ==
    {<<[m |-> 2^23, e |-> -23], [m |-> 15099494, e |-> -24]>>,
     <<[m |-> 15099494, e |-> -24], [m |-> 2^23, e |-> -23]>>}

\* the spectra of an area selection of one to MaxLen pixels
SpecArrays == UNION {[1..n -> Reflectances] : n \in 1..MaxLen}

\* the mean and error spectrum that add_group and add_lasso compute and
\* hand to the plot
AreaStatistics(spec_array) ==
    /\ app = "utils" /\ call.fn = "none"
    /\ call' = [fn |-> "add_group", args |-> <<spec_array>>,
                result |-> [mean_spectrum |-> np_mean(spec_array),
                            err_spectrum |-> np_std(spec_array)]]
    /\ raised' = "none"
    /\ UtilsRest

(***************************************************************************)
(* rgbdisplay: RGBImageDisplay, the image window of the band composite.    *)
(* Its handlers for the panning, picking and scan state are those of       *)
(* ImageDisplay on image_ax; the record adds rgb, the ThreeBandRGB object  *)
(* with the field raised, and in _state the three band indicators          *)
(* (indicator[color] for r_indicator, g_indicator, b_indicator) and the    *)
(* mirror lines (None is << >>).  On the scanning axis event.xdata is a    *)
(* wavelength.                                                             *)
(***************************************************************************)
\* SpectrumDislpay.wvl, one wavelength per band of the cube
wvl == [b \in 1..BandCount |-> 2 * b - 1]

\* Line2D.contains of a vertical line: the pointer is on the line
contains(line_obj, event) == event.xdata = line_obj.xdata

RGBImageDisplayState ==
    [specdisplay |-> PickerState, _state |-> imdisplay,
     rgb |-> rgb @@ [raised |-> "none"]]

\* RGBImageDisplay.on_button_press
rgbim_on_button_press(d, event) ==
    LET d1 == im_on_button_press(d, event)
    IN  IF Failed(d1.specdisplay) THEN d1
        ELSE IF event.inaxes = "scanning_ax"
        THEN [d1 EXCEPT !._state.indicator =
                 [c \in DOMAIN @ |->
                     IF contains(@[c].line_obj, event)
                     THEN [@[c] EXCEPT !.pressed = TRUE] ELSE @[c]]]
        ELSE d1

\* a release that lets go of the indicators for the left button only
rgbim_on_button_release_left_only(d, event) ==
    LET d1 == im_on_button_release(d, event)
    IN  IF event.button # 1 THEN d1
        ELSE [d1 EXCEPT !._state.indicator =
                 [c \in DOMAIN @ |-> [@[c] EXCEPT !.pressed = FALSE]]]

\* RGBImageDisplay.on_button_release
rgbim_on_button_release(d, event) ==
    LET d1 == im_on_button_release(d, event)
    IN  [d1 EXCEPT !._state.indicator =
            [c \in DOMAIN @ |-> [@[c] EXCEPT !.pressed = FALSE]]]

\* the three "if ... pressed" blocks of on_motion, for the colors in order
RECURSIVE MoveIndicators(_, _, _)
MoveIndicators(d, event, colors) ==
    IF colors = << >> THEN d
    ELSE LET c == Head(colors)
         IN  IF ~d._state.indicator[c].pressed
             THEN MoveIndicators(d, event, Tail(colors))
             ELSE LET d1 == [d EXCEPT !._state.indicator[c].line_obj.xdata =
                                          event.xdata]
                      set == idx_setter(d1.rgb, c, find_wvl(wvl, event.xdata)[1])
                      read == IF Failed(set) THEN set ELSE scaled_rgb(set)
                      d2 == [d1 EXCEPT !.rgb = read]
                  IN  IF Failed(read) THEN d2
                      ELSE MoveIndicators(d2, event, Tail(colors))

\* RGBImageDisplay.on_motion
rgbim_on_motion(d, event) ==
    LET d1 == im_on_motion(d, event)
    IN  IF Failed(d1.specdisplay) \/ event.inaxes # "scanning_ax" THEN d1
        ELSE LET d2 == MoveIndicators(d1, event, <<"r", "g", "b">>)
             IN  IF Failed(d2.rgb)
                 THEN [d2 EXCEPT !.specdisplay = Raise(@, d2.rgb.raised)]
                 ELSE IF ~d2.specdisplay.fig THEN d2
                 ELSE [d2 EXCEPT !._state.band_indicator_mirrors =
                          [c \in DOMAIN @ |->
                              wvl[PyIndex(d2.rgb._idx[c], BandCount) + 1]]]

(***************************************************************************)
(* rgbdisplay: events.                                                     *)
(***************************************************************************)
\* the left button on the scanning axis at the first indicator position, at
\* the second one and at the last wavelength; the middle button on the image
RGBImButtonEvents ==
    LET at(button, inaxes, xdata) ==
            [button |-> button, inaxes |-> inaxes, x |-> 40, y |-> 30,
             xdata |-> xdata, ydata |-> 2]
    IN  {at(1, "scanning_ax", 0), at(1, "scanning_ax", 1),
         at(1, "scanning_ax", wvl[BandCount]), at(2, "display_ax", 2)}

\* the pointer moves on the scanning axis to the first indicator position
\* and to the last wavelength, and on the image to its second row
RGBImMotionEvents ==
    {[inaxes |-> "scanning_ax", x |-> 90, y |-> 30, xdata |-> 0, ydata |-> 2],
     [inaxes |-> "scanning_ax", x |-> 94, y |-> 30,
      xdata |-> wvl[BandCount], ydata |-> 2],
     [inaxes |-> "display_ax", x |-> 44, y |-> 30, xdata |-> 2, ydata |-> 2]}

\* pixels (x, y) inside a lasso: the last pixel of the image
RGBImLassos == {<< <<Width - 1, Height - 1>> >>}

SetRGBImageDisplay(d) ==
    /\ SetPicker(d.specdisplay)
    /\ imdisplay' = d._state
    /\ rgb' = [f \in DOMAIN rgb |-> d.rgb[f]]
    /\ UNCHANGED <<app, call, rgbcanvas, hist, cube_vars, canvas_vars>>

RGBImButtonPress(event) ==
    /\ app = "rgbdisplay"
    /\ im_event' = <<"button_press", event>>
    /\ SetRGBImageDisplay(rgbim_on_button_press(RGBImageDisplayState, event))

RGBImButtonRelease(event) ==
    /\ app = "rgbdisplay"
    /\ im_event' = <<"button_release", event>>
    /\ SetRGBImageDisplay(rgbim_on_button_release(RGBImageDisplayState, event))

RGBImMotion(event) ==
    /\ app = "rgbdisplay"
    /\ im_event' = <<"motion_notify", event>>
    /\ SetRGBImageDisplay(rgbim_on_motion(RGBImageDisplayState, event))

\* RGBImageDisplay.on_key_press, the code of ImageDisplay.on_key_press
RGBImKeyPress(event) ==
    /\ app = "rgbdisplay"
    /\ im_event' = <<"key_press", event>>
    /\ SetRGBImageDisplay(im_on_key_press(RGBImageDisplayState, event))

\* RGBImageDisplay.on_key_release, the code of ImageDisplay.on_key_release
RGBImKeyRelease(event) ==
    /\ app = "rgbdisplay"
    /\ im_event' = <<"key_release", event>>
    /\ SetRGBImageDisplay(im_on_key_release(RGBImageDisplayState, event))

\* RGBImageDisplay.onselect, the code of ImageDisplay.onselect on the shape
\* of rgb.scaled_rgb: the lasso selector, when active, reports a finished
\* lasso
RGBImSelect(inside) ==
    /\ app = "rgbdisplay"
    /\ im_event' = <<"onselect", inside>>
    /\ imdisplay.selector_active
    /\ mean_spec_count < MaxAreas
    /\ Len(plotted) < MaxAreas
    /\ SetRGBImageDisplay(im_onselect(RGBImageDisplayState, inside))

\* add_rgb_slider.update, the callback of rslide, gslide and bslide: the
\* bounds of the three channels are assigned and the composite is read
rgbim_slider_update(d, val) ==
    LET d1 == [d EXCEPT !.rgb = slider_update(@, val)]
    IN  IF Failed(d1.rgb)
        THEN [d1 EXCEPT !.specdisplay = Raise(@, d1.rgb.raised)]
        ELSE d1

RGBImSliderUpdate(val) ==
    /\ app = "rgbdisplay"
    /\ im_event' = <<"slider", val>>
    /\ SetRGBImageDisplay(rgbim_slider_update(RGBImageDisplayState, val))

\* RGBImageDisplay(rgbimage, specdisplay, band_indicators = (0, 1, 0))
RGBImageDisplayInit ==
    /\ im_event = <<"none", << >> >>
    /\ imdisplay =
          [panning |-> NoPanning, collect_spectra |-> FALSE,
           collect_area |-> FALSE, selector_active |-> FALSE,
           is_scanning |-> FALSE, patches |-> 0,
           xcrosshair |-> [visible |-> TRUE, xdata |-> 0],
           ycrosshair |-> [visible |-> TRUE, ydata |-> 0],
           data_line |-> [visible |-> TRUE,
                          ydata |-> [b \in 1..BandCount |-> 1]],
           indicator |->
               [c \in {"r", "g", "b"} |->
                   [pressed |-> FALSE,
                    line_obj |-> [xdata |-> IF c = "g" THEN 1 ELSE 0]]],
           band_indicator_mirrors |-> [c \in {"r", "g", "b"} |-> << >>]]

\* SpectralDisplayWidget.set_cube on the fields wvl and cube of the widget;
\* an array is given by its shape
set_cube(s, wvl_array, data) ==
    IF Len(data.shape) # 3 THEN s
    ELSE [s EXCEPT !.wvl = wvl_array, !.cube = data]

\* wavelength arrays of two and three entries; a cube of two bands, an
\* image, and a cube of three bands
SetCubeArguments ==
    {[shape |-> <<n>>] : n \in 2..3}
        \X {[shape |-> <<Height, Width, 2>>], [shape |-> <<Height, Width>>],
            [shape |-> <<Height, Width, 3>>]}

\* the widget after __init__ holds np.empty((0, 0, 0)) in both fields;
\* later calls of set_cube act on what the call before them stored
SetCube(wvl_array, data) ==
    /\ app = "utils" /\ call.fn \in {"none", "set_cube"}
    /\ LET new == [wvl |-> [shape |-> <<0, 0, 0>>],
                   cube |-> [shape |-> <<0, 0, 0>>]]
           stored == IF call.fn = "set_cube" THEN call.result ELSE new
       IN  call' = [fn |-> "set_cube", args |-> <<wvl_array, data>>,
                    result |-> set_cube(stored, wvl_array, data)]
    /\ raised' = "none"
    /\ UtilsRest

\* points (x, y) inside a lasso on the square image of an RGBCanvas: two
\* pixels that are not each other's mirror image, and a pixel with a point
\* off the image
SelectRegions == {{<<0, 1>>, <<1, 2>>}, {<<1, 0>>, <<2 * Height, 0>>}}

\* a cube of h rows and w columns with the bands of the loaded cube, numbered
\* like the loaded cube
TestCube(h, w) ==
    [r \in 1..h |->
        [c \in 1..w |->
            [band \in 1..BandCount |->
                BandCount * ((r - 1) * w + c - 1) + band]]]

\* RGBCanvas.onselect on a new canvas made for an RGB image of h rows and w
\* columns, in front of a new SpectralCanvas of a cube of that height and
\* width (the canvas exists when square_image returned): the selected
\* pixels, kept in call.result, are handed to add_lasso
OnSelect(h, w, region) ==
    /\ app = "utils" /\ call.fn = "none"
    /\ LET squared == square_image(TestImage(h, w), TRUE)
           pixels == selected_pixels(squared.square_img, squared.offset,
                                     set_pixel_coords(squared.square_img),
                                     region)
           s == add_lasso(CanvasState, TestCube(h, w), pixels)
       IN  /\ squared.raised = "none"
           /\ call' = [fn |-> "onselect", args |-> <<h, w, region>>,
                       result |-> pixels]
           /\ SetCanvas(s)
           /\ hist' = CanvasAdded(s)
    /\ UNCHANGED <<app, rgbcanvas, imdisplay, im_event, rgb, cube_vars,
                   picker_vars>>

UtilsInit == call = [fn |-> "none", args |-> << >>, result |-> << >>]

Init ==
    /\ app \in {"cubeview", "specview", "rgbcanvas", "lasso", "picker",
               "imagedisplay", "scan", "rgbimage", "rgbdisplay", "utils"}
    /\ raised = "none"
    /\ hist = HistInit
    /\ CubeviewInit
    /\ CanvasInit
    /\ RGBCanvasInit
    /\ PickerInit
    /\ IF app = "rgbdisplay" THEN RGBImageDisplayInit ELSE ImageDisplayInit
    /\ ThreeBandRGBInit
    /\ UtilsInit

Next ==
    \/ \E pos \in PointerPositions : PixelPick(pos)
    \/ \E double \in BOOLEAN, in_coords \in LassoSelections :
           LassoClick(double, in_coords)
    \/ \E coords \in {<< <<0, 0, 0>> >>} : AddGroup(coords)
    \/ \E id \in 1..MaxItems : EditSpectrum(id)
    \/ \E text \in RenameTexts : SetSpectrumName(text)
    \/ DeleteSpectrum
    \/ CloseEditWindow
    \/ EmptyCache
    \/ \E c \in CanvasCoordinates : CanvasAddSpectrum(c)
    \/ \E c_list \in CanvasLassos : CanvasAddLasso(c_list)
    \/ \E id \in 1..MaxItems : CanvasPick(id)
    \/ \E text \in RenameTexts : CanvasSetSpectrumName(text)
    \/ CanvasDeleteSpectrum
    \/ CanvasCloseEditWindow
    \/ CanvasClear
    \/ \E press \in RGBPresses, inside \in BOOLEAN : RGBButtonPress(press, inside)
    \/ \E button \in 1..3 : RGBButtonRelease(button)
    \/ \E key \in Keys \cup {"c"} : RGBKeyPress(key)
    \/ \E key \in Keys : RGBKeyRelease(key)
    \/ \E pos \in RGBPositions \cup LassoPositions, inside \in BOOLEAN,
           slots_are_functions \in BOOLEAN :
            RGBMotion(pos, inside, slots_are_functions)
    \/ \E pos \in ScrollPositions, button \in {"up", "down"},
           inside \in BOOLEAN, slots_are_functions \in BOOLEAN :
            RGBScroll(pos, button, inside, slots_are_functions)
    \/ \E region \in RGBLassos : RGBSelect(region)
    \/ PickerToggle
    \/ \E pos \in PickerPixels : PickerPlot(pos)
    \/ \E area \in PickerAreas, include_error_bars \in BOOLEAN :
            PickerPlotAverage(area, include_error_bars)
    \/ PickerClear
    \/ PickerSave
    \/ \E file \in SaveFiles : PickerSaveAnswer(file)
    \/ \E event \in ImButtonEvents : ImButtonPress(event)
    \/ \E event \in ImButtonEvents : ImButtonRelease(event)
    \/ \E event \in {[key |-> key] : key \in Keys} : ImKeyPress(event)
    \/ \E event \in {[key |-> key] : key \in Keys} : ImKeyRelease(event)
    \/ \E event \in ScanMotionEvents : ImMotion(event)
    \/ \E inside \in ImLassos : ImSelect(inside)
    \/ \E color \in {"r", "g", "b"}, value \in BandIndices : BandSetIdx(color, value)
    \/ \E assignment \in LowAssignments :
            BandSetLow(assignment[1], assignment[2])
    \/ \E assignment \in HighAssignments :
            BandSetHigh(assignment[1], assignment[2])
    \/ BandRead
    \/ \E val \in SliderRanges : BandSliderUpdate(val)
    \/ \E event \in RGBImButtonEvents : RGBImButtonPress(event)
    \/ \E event \in RGBImButtonEvents : RGBImButtonRelease(event)
    \/ \E event \in RGBImMotionEvents : RGBImMotion(event)
    \/ \E event \in {[key |-> key] : key \in Keys} : RGBImKeyPress(event)
    \/ \E event \in {[key |-> "control"]} : RGBImKeyRelease(event)
    \/ \E inside \in RGBImLassos : RGBImSelect(inside)
    \/ \E val \in SliderRanges : RGBImSliderUpdate(val)
    \/ \E h \in 1..Height, w \in 1..Height, is_rgb \in BOOLEAN :
            SquareImage(h, w, is_rgb)
    \/ \E wvls \in WavelengthArrays, targetwvl \in 0..(MaxWvl + 1) :
            FindWvl(wvls, targetwvl)
    \/ \E spec_array \in SpecArrays : AreaStatistics(spec_array)
    \/ \E h \in 1..Height, w \in 1..Height, region \in SelectRegions :
            OnSelect(h, w, region)
    \/ \E arguments \in SetCubeArguments : SetCube(arguments[1], arguments[2])

Spec == Init /\ [][Next]_vars

(***************************************************************************)
(* Properties.                                                             *)
(***************************************************************************)
\* the pixel (x, y) of a pointer position
PickedPixel(pos) == <<IntOfHalves(pos[1]), IntOfHalves(pos[2])>>
InBounds(pos) ==
    /\ PickedPixel(pos)[1] \in 0..(Width - 1)
    /\ PickedPixel(pos)[2] \in 0..(Height - 1)

\* the name of the spectrum created last
LastAdded ==
    IF app = "cubeview" THEN plot_items[Len(plot_items)].name
    ELSE spectra[Len(spectra)].name

InCatalog(id) == \E i \in 1..Len(spectral_catalog) : spectral_catalog[i] = id

\* C1: in the pyqtgraph viewer the number of spectrum plot items on the
\* spectral plot equals the number of entries of state.spectrum_cache, in
\* every state reached by picks, lassos, renames, deletes and clears.
C1_PlotItemsMatchCache ==
    Cardinality({i \in spec_plot : i.t = "plot"})
        = Cardinality(DOMAIN spectrum_cache)

\* C2: renaming a spectrum to a name that is already the key of a different
\* cache entry fails and leaves spectrum_cache and polygon_cache unchanged.
C2_RenameToExistingNameFails ==
    [][\A text \in RenameTexts :
        (/\ SetSpectrumName(text)
         /\ text \in DOMAIN spectrum_cache
         /\ spectrum_cache[text] # edit_win)
        => (/\ raised' # "none"
            /\ UNCHANGED <<spectrum_cache, polygon_cache>>)]_vars

\* C3: after SpecViewWindow.empty_cache, spectrum_cache and polygon_cache
\* contain no entries.
C3_ClearEmptiesCaches ==
    [][EmptyCache => (/\ DOMAIN spectrum_cache' = {}
                      /\ DOMAIN polygon_cache' = {})]_vars

\* C4: after a clear (empty_cache, SpectralCanvas.clear_spectra) the first
\* single-pixel spectrum that is added is named SPECTRUM_01.
C4_SingleAfterClearIsFirst ==
    [][(hist.after = "clear" /\ ~hist.singles /\ hist'.singles)
        => LastAdded' = "SPECTRUM_01"]_vars

\* C5: no two spectra of SpectralCanvas.state.spectral_catalog have the
\* same name, in every state reached by add_spectrum, add_lasso, renames,
\* deletes and clear_spectra.
C5_CatalogNamesDistinct ==
    \A i, j \in 1..Len(spectral_catalog) :
        i # j => spectra[spectral_catalog[i]].name
                    # spectra[spectral_catalog[j]].name

\* C6: whenever add_spectrum or add_group of SpectralDisplayWidget adds a
\* spectrum, its auto-generated name is not a key of spectrum_cache before
\* the add, so no cache entry is overwritten.
C6_AutoNameIsFresh ==
    [][(app = "cubeview" /\ Len(plot_items') > Len(plot_items))
        => LastAdded' \notin DOMAIN spectrum_cache]_vars

\* C7: between two clears the number in the auto-generated name of an added
\* spectrum is greater than the number of every spectrum added before it,
\* deleted or not, so a delete frees no name (nspectra, _count).
C7_AutoNumbersIncrease ==
    [][Len(hist'.issued) > Len(hist.issued)
        => \A i \in 1..Len(hist.issued) :
              hist.issued[i] < hist'.issued[Len(hist'.issued)]]_vars

\* C7 reached: a spectrum was added, one was deleted, and then another
\* spectrum was added, with no clear in between.
C7_AddedAfterDelete ==
    /\ hist.deleted >= 1
    /\ Len(hist.issued) > hist.deleted

\* C8: on SpectralCanvas every artist of a spectrum (its line and, for an
\* area mean, its caps and bars) is on the axis if the spectrum is in
\* spectral_catalog, and none of them is if it is not.
C8_ArtistsExactlyForCatalog ==
    \A id \in 1..Len(spectra) :
        IF InCatalog(id)
        THEN ArtistsOf(CanvasState, id) \subseteq spec_axis
        ELSE ArtistsOf(CanvasState, id) \cap spec_axis = {}

\* C8 reached: an area mean was deleted from the canvas while another
\* spectrum stays in the catalog.
C8_AreaDeletedOtherKept ==
    /\ hist.after = "startup"
    /\ \E id, kept \in 1..Len(spectra) :
        /\ spectra[id].kind = "mean"
        /\ ~InCatalog(id)
        /\ InCatalog(kept)

\* C9: after a SpectrumDislpay.clear_spectra that raises nothing, no
\* spectrum is registered, in cached_plots or as currently_plotted, and no
\* spectrum line is on a plot.
C9_ClearForgetsEverySpectrum ==
    [][(PickerClear /\ raised' = "none")
                   => (/\ cached_plots' = << >>
                       /\ currently_plotted' = 0
                       /\ \A a \in ax_artists' : a.t # "line")]_vars

\* C10: a pointer pick at an in-bounds pixel (x, y) adds exactly one cache
\* entry, a single-pixel spectrum with data cube[y, x, :], and the first
\* add after start-up or a clear is named SPECTRUM_01.
C10_PickAddsOneEntry ==
    [][\A pos \in PointerPositions :
        (PixelPick(pos) /\ InBounds(pos) /\ ~_drawing)
        => (/\ Len(plot_items') = Len(plot_items) + 1
            /\ Cardinality(DOMAIN spectrum_cache')
                  = Cardinality(DOMAIN spectrum_cache) + 1
            /\ plot_items'[Len(plot_items')].kind = "single"
            /\ plot_items'[Len(plot_items')].spec_array
                  = <<cube[PickedPixel(pos)[2] + 1][PickedPixel(pos)[1] + 1]>>
            /\ (~hist.attempts => LastAdded' = "SPECTRUM_01"))]_vars

\* C11: a pointer pick whose integer coordinate is outside
\* [0, height) x [0, width) creates no cache entry and no plot artifact,
\* changes no counter and raises no error, both in
\* ImagePickerWidget.pixel_select (x = width and y = height included) and in
\* RGBCanvas.on_button_press (clicks on the padded border).
C11_OutOfBoundsPickIsNoOp ==
    [][/\ \A pos \in PointerPositions :
            PixelPick(pos) /\ ~InBounds(pos)
                => UNCHANGED cube_vars /\ raised' = "none"
       /\ \A pos \in RGBPositions :
            RGBButtonPress(<<1, pos>>, TRUE) /\ ~rgbcanvas.lasso_is_active
                    /\ ~(/\ pos[1] + img_offsets.x_offset \in 0..(Width - 1)
                         /\ pos[2] + img_offsets.y_offset \in 0..(Height - 1))
                => UNCHANGED canvas_vars /\ raised' = "none"]_vars

\* C12: in ImageDisplay (and RGBImageDisplay, which has the same onselect)
\* a completed lasso that encloses no grid point is a no-op: onselect and
\* plot_average register no spectrum, draw no line, leave mean_spec_count
\* unchanged and raise no error.
C12_EmptyLassoIsNoOp ==
    [][ImSelect(<< >>) => UNCHANGED picker_vars /\ raised' = "none"]_vars

\* C13: in ImageDisplay (and RGBImageDisplay, which has the same key
\* handlers) lasso-collecting is inactive after every release of the control
\* key: collect_area is false and the selector is deactivated, whatever
\* happened while the key was held.
C13_ControlReleaseEndsLasso ==
    im_event[1] = "key_release" /\ im_event[2].key = "control"
        => ~imdisplay.collect_area /\ ~imdisplay.selector_active

\* C14: in every reachable state of an image canvas (RGBCanvas,
\* ImageDisplay) panning and lasso-collecting are not both active.
C14_NotPanningAndLasso ==
    /\ ~(rgbcanvas.panning.is_active /\ rgbcanvas.lasso_is_active)
    /\ ~(imdisplay.panning.is_panning /\ imdisplay.collect_area)

\* C15: in ImageDisplay panning is active exactly from a middle-button press
\* inside the image axis until the next middle-button release: that press
\* sets the flag, the anchor and the target axis, a middle-button release
\* clears all three, a press or release of another button (or a middle press
\* outside the image axis) leaves the panning state as it is, and no other
\* event changes the flag or the target axis (a motion moves the anchor of
\* an active panning only).
C15_PanningFromPressToRelease ==
    [][/\ \A event \in ImButtonEvents :
            /\ ImButtonPress(event) /\ (event.button = 2 /\ event.inaxes = "display_ax")
                => imdisplay'.panning =
                        [is_panning |-> TRUE,
                         pan_start |-> <<event.x, event.y>>,
                         pan_ax |-> "display_ax"]
            /\ ImButtonPress(event) /\ ~(event.button = 2 /\ event.inaxes = "display_ax")
                => imdisplay'.panning = imdisplay.panning
            /\ ImButtonRelease(event) /\ event.button = 2
                => imdisplay'.panning = NoPanning
            /\ ImButtonRelease(event) /\ event.button # 2
                => imdisplay'.panning = imdisplay.panning
       /\ (app \in {"imagedisplay", "scan"}
              /\ imdisplay'.panning # imdisplay.panning)
            => \/ \E event \in ImButtonEvents :
                    \/ ImButtonPress(event) /\ (event.button = 2 /\ event.inaxes = "display_ax")
                    \/ ImButtonRelease(event) /\ event.button = 2
               \/ /\ \E event \in ImMotionEvents : ImMotion(event)
                  /\ imdisplay.panning.is_panning
                  /\ imdisplay'.panning.is_panning
                  /\ imdisplay'.panning.pan_ax = imdisplay.panning.pan_ax]_vars

\* C15: panning is active, its anchor has followed the pointer, and a
\* left-button press has plotted a spectrum
C15_PanningWhilePicked ==
    /\ app = "imagedisplay"
    /\ imdisplay.panning.is_panning
    /\ imdisplay.panning.pan_start = <<44, 30>>
    /\ imdisplay.patches = 1

\* C16: in ThreeBandRGB an assignment to the band index or to a bound of
\* one channel invalidates that channel's cached slice and the cached
\* composite, and leaves the cached slices, the band indices and the bounds
\* (as the properties return them) of the other two channels unchanged.
C16_AssignmentTouchesOneChannel ==
    [][\A color \in {"r", "g", "b"} :
         (/\ \/ \E value \in BandIndices : BandSetIdx(color, value)
             \/ \E assignment \in LowAssignments :
                    assignment[1] = color /\ BandSetLow(color, assignment[2])
             \/ \E assignment \in HighAssignments :
                    assignment[1] = color /\ BandSetHigh(color, assignment[2])
          /\ raised' = "none")
         => /\ rgb'._cache[color] = << >>
            /\ rgb'._cache["rgb"] = << >>
            /\ \A other \in {"r", "g", "b"} \ {color} :
                /\ rgb'._cache[other] = rgb._cache[other]
                /\ rgb'._idx[other] = rgb._idx[other]
                /\ bounds_getter(rgb', other) = bounds_getter(rgb, other)]_vars

\* C16 for the stored fields _rlow .. _bhigh instead of the properties
C16_StoredBoundsOfOthersKept ==
    [][\A color \in {"r", "g", "b"} :
         (/\ \/ \E value \in BandIndices : BandSetIdx(color, value)
             \/ \E assignment \in LowAssignments :
                    assignment[1] = color /\ BandSetLow(color, assignment[2])
             \/ \E assignment \in HighAssignments :
                    assignment[1] = color /\ BandSetHigh(color, assignment[2])
          /\ raised' = "none")
         => /\ rgb'._cache[color] = << >>
            /\ rgb'._cache["rgb"] = << >>
            /\ \A other \in {"r", "g", "b"} \ {color} :
                /\ rgb'._cache[other] = rgb._cache[other]
                /\ rgb'._idx[other] = rgb._idx[other]
                /\ rgb'._low[other] = rgb._low[other]
                /\ rgb'._high[other] = rgb._high[other]
                /\ rgb'._norms[other] = rgb._norms[other]]_vars

\* C17: the caches are never stale: a cached slice is the band of the
\* channel's current index, and a cached composite, which is what reading
\* scaled_rgb returns, is the composite computed from the current band
\* indices and bounds.
C17_CachesNeverStale ==
    /\ \A color \in {"r", "g", "b"} :
        rgb._cache[color] # << >>
            => /\ InRange(rgb._idx[color], BandCount)
               /\ rgb._cache[color] = Band(rgb._idx[color])
    /\ rgb._cache["rgb"] # << >>
        => /\ \A color \in {"r", "g", "b"} :
                /\ InRange(rgb._idx[color], BandCount)
                /\ rgb._low[color] <= rgb._high[color]
           /\ rgb._cache["rgb"] =
                [i \in 1..3 |->
                    LET color == <<"r", "g", "b">>[i]
                    IN  Normalize(<<rgb._low[color], rgb._high[color]>>,
                                  Band(rgb._idx[color]))]

\* C18: an assignment of a band index outside [0, bandCount) to ridx, gidx
\* or bidx fails and leaves the index, the bounds, the norms and the caches
\* as they were.
C18_BadIndexRejected ==
    [][\A color \in {"r", "g", "b"}, value \in BandIndices :
            BandSetIdx(color, value) /\ value \notin 0..(BandCount - 1)
                => raised' # "none" /\ rgb' = rgb]_vars

\* C19: an assignment to a bound that would make low >= high is rejected,
\* and the previous bounds and norm of the channel are retained, for the
\* setters and for the slider callback add_rgb_slider.update.
C19_InvertedBoundsRejected ==
    [][/\ \A assignment \in LowAssignments :
            /\ BandSetLow(assignment[1], assignment[2])
            /\ assignment[2] >= rgb._high[assignment[1]]
            => raised' # "none" /\ rgb' = rgb
       /\ \A assignment \in HighAssignments :
            /\ BandSetHigh(assignment[1], assignment[2])
            /\ rgb._low[assignment[1]] >= assignment[2]
            => raised' # "none" /\ rgb' = rgb
       /\ \A val \in SliderRanges, i \in 1..3 :
            BandSliderUpdate(val) /\ val[i][1] >= val[i][2]
            => LET color == <<"r", "g", "b">>[i]
               IN  /\ rgb'._low[color] = rgb._low[color]
                   /\ rgb'._high[color] = rgb._high[color]
                   /\ rgb'._norms[color] = rgb._norms[color]]_vars

\* C20: for every channel the bounds read from the properties are the
\* minimum and maximum of the channel's band after construction and after
\* each assignment to its band index, and after an assignment to a bound
\* that bound reads as the value assigned.
C20_ReadableBounds ==
    /\ [](ThreeBandRGBInit
            => \A color \in {"r", "g", "b"} :
                    bounds_getter(rgb, color) = extrema(rgb._idx[color]))
    /\ [][/\ \A color \in {"r", "g", "b"}, value \in BandIndices :
                BandSetIdx(color, value) /\ raised' = "none"
                    => bounds_getter(rgb', color) = extrema(value)
          /\ \A assignment \in LowAssignments :
                BandSetLow(assignment[1], assignment[2])
                    => bounds_getter(rgb', assignment[1])[1] = assignment[2]
          /\ \A assignment \in HighAssignments :
                BandSetHigh(assignment[1], assignment[2])
                    => bounds_getter(rgb', assignment[1])[2] = assignment[2]]_vars

\* C20 without the bounds read after construction
C20_ReadableBoundsAfterAssignment ==
    [][/\ \A color \in {"r", "g", "b"}, value \in BandIndices :
            BandSetIdx(color, value) /\ raised' = "none"
                => bounds_getter(rgb', color) = extrema(value)
       /\ \A assignment \in LowAssignments :
            BandSetLow(assignment[1], assignment[2])
                => bounds_getter(rgb', assignment[1])[1] = assignment[2]
       /\ \A assignment \in HighAssignments :
            BandSetHigh(assignment[1], assignment[2])
                => bounds_getter(rgb', assignment[1])[2] = assignment[2]]_vars

(***************************************************************************)
(* Properties of the array functions.                                      *)
(***************************************************************************)

\* C21: square_image succeeds for every image shape, 2-D or RGB, and the
\* padded image cropped back by the returned offset is the original image
C21_SquareImageCropsBack ==
    call.fn = "square_image" =>
        LET h == call.args[1]
            w == call.args[2]
            res == call.result
            dy == -res.offset.y_offset
            dx == -res.offset.x_offset
        IN  /\ res.raised = "none"
            /\ Len(res.square_img) >= dy + h
            /\ \A r \in 1..h :
                  /\ Len(res.square_img[dy + r]) >= dx + w
                  /\ \A c \in 1..w :
                        res.square_img[dy + r][dx + c] = TestImage(h, w)[r][c]

\* C22: find_wvl returns an index whose wavelength has the smallest absolute
\* difference to the target over the whole array, the lowest such index when
\* several tie, together with the wavelength at that index.
C22_ClosestLowestIndex ==
    call.fn = "find_wvl" =>
        LET wvls == call.args[1]
            targetwvl == call.args[2]
            idx == call.result[1]
        IN  /\ idx \in 0..(Len(wvls) - 1)
            /\ call.result[2] = wvls[idx + 1]
            /\ \A j \in 1..Len(wvls) :
                  Abs(wvls[idx + 1] - targetwvl) <= Abs(wvls[j] - targetwvl)
            /\ \A j \in 1..idx :
                  Abs(wvls[idx + 1] - targetwvl) < Abs(wvls[j] - targetwvl)

\* C22: two wavelengths at the same distance on either side of the target,
\* behind a farther one, and the first of the two was returned
C22_TieResolved ==
    /\ call.fn = "find_wvl"
    /\ call.args = <<<<4, 1, 3>>, 2>>
    /\ call.result = <<1, 1>>

\* C23: for an area selection of n >= 2 pixels whose spectra are all the
\* same vector, the mean spectrum is that vector and the error spectrum is
\* zero in every band.
C23_IdenticalSpectra ==
    call.fn = "add_group" =>
        LET spec_array == call.args[1] IN
        (Len(spec_array) >= 2
         /\ \A i \in 1..Len(spec_array) : spec_array[i] = spec_array[1])
            => /\ call.result.mean_spectrum = spec_array[1]
               /\ \A band \in 1..Len(spec_array[1]) :
                      call.result.err_spectrum[band] = "zero"

\* C30: for an area selection of one pixel the mean spectrum is that
\* pixel's spectrum and no band of the error spectrum is NaN; likewise for
\* every one-pixel mean spectrum that the SpectralCanvas keeps.
C30_OnePixelArea ==
    /\ call.fn = "add_group" /\ Len(call.args[1]) = 1
            => /\ call.result.mean_spectrum = call.args[1][1]
               /\ \A band \in 1..Len(call.args[1][1]) :
                      call.result.err_spectrum[band] # "nan"
    /\ \A id \in 1..Len(spectra) :
            spectra[id].kind = "mean" /\ Len(spectra[id].spec_array) = 1
                => LET spec_array ==
                           [i \in 1..1 |->
                               [band \in 1..Len(spectra[id].spec_array[1]) |->
                                   F32Of(spectra[id].spec_array[1][band])]]
                   IN  /\ np_mean(spec_array) = spec_array[1]
                       /\ \A band \in 1..Len(spec_array[1]) :
                              np_std(spec_array)[band] # "nan"

\* C24: while scan mode is active, a pointer motion to a position outside
\* the image (off the image axis, or on it beyond the rows or columns of
\* the cube) raises no error and leaves both guide lines and the scan
\* spectrum line hidden; for ImageDisplay.on_motion and RGBCanvas.on_motion.
C24_ScanOutsideImageHidesLines ==
    [][/\ \A event \in ScanMotionEvents :
            (/\ ImMotion(event)
             /\ imdisplay.is_scanning
             /\ \/ event.inaxes # "display_ax"
                \/ ~CubeHas(RoundOfHalves(event.ydata),
                            RoundOfHalves(event.xdata))
                \/ event.xdata < 0 \/ event.ydata < 0)
                => /\ raised' = "none"
                   /\ ~imdisplay'.xcrosshair.visible
                   /\ ~imdisplay'.ycrosshair.visible
                   /\ ~imdisplay'.data_line.visible
       /\ \A pos \in RGBPositions, inside \in BOOLEAN,
             slots_are_functions \in BOOLEAN :
            (/\ RGBMotion(pos, inside, slots_are_functions)
             /\ rgbcanvas.crosshair.is_active
             /\ \/ ~inside
                \/ pos[1] + img_offsets.x_offset \notin 0..(Width - 1)
                \/ pos[2] + img_offsets.y_offset \notin 0..(Height - 1))
                => /\ raised' = "none"
                   /\ ~rgbcanvas'.crosshair.xline.visible
                   /\ ~rgbcanvas'.crosshair.yline.visible
                   /\ ~rgbcanvas'.crosshair.scan_spectrum.visible]_vars

\* C25: a rename from oldName, a key of both caches, to a newName that is
\* not in the cache removes
\* the key oldName, binds newName to the plot and error bar being renamed
\* and to the polygon that oldName had, and leaves every other entry of
\* spectrum_cache and polygon_cache unchanged.
C25_RenameMovesEntry ==
    [][\A text \in RenameTexts :
        (/\ SetSpectrumName(text)
         /\ text \notin DOMAIN spectrum_cache
         /\ plot_items[edit_win].name \in DOMAIN spectrum_cache
         /\ plot_items[edit_win].name \in DOMAIN polygon_cache)
        => LET old_name == plot_items[edit_win].name IN
           /\ raised' = "none"
           /\ DOMAIN spectrum_cache' =
                  (DOMAIN spectrum_cache \ {old_name}) \cup {text}
           /\ DOMAIN polygon_cache' =
                  (DOMAIN polygon_cache \ {old_name}) \cup {text}
           /\ spectrum_cache'[text] = edit_win
           /\ spectrum_cache'[text] = spectrum_cache[old_name]
           /\ polygon_cache'[text] = polygon_cache[old_name]
           /\ \A n \in DOMAIN spectrum_cache \ {old_name} :
                  spectrum_cache'[n] = spectrum_cache[n]
           /\ \A n \in DOMAIN polygon_cache \ {old_name} :
                  polygon_cache'[n] = polygon_cache[n]]_vars

\* C26: removing a name that is not in the cache (the slot remove_spectrum,
\* reached from the edit window's delete button) fails and leaves
\* spectrum_cache and polygon_cache exactly as before.
C26_RemoveMissingNameFails ==
    [][(/\ DeleteSpectrum
        /\ plot_items[edit_win].name \notin DOMAIN spectrum_cache)
        => (/\ raised' = "KeyError"
            /\ UNCHANGED <<spectrum_cache, polygon_cache>>)]_vars

\* C26: a delete has closed the edit window and failed on the name of its
\* spectrum, which is in neither cache, while another spectrum is cached
C26_MissingNameRemoved ==
    /\ raised = "KeyError"
    /\ edit_win = 0
    /\ hist.deleted > 0
    /\ DOMAIN spectrum_cache # {}
    /\ \E id \in 1..Len(plot_items) :
          /\ plot_items[id].name \notin DOMAIN spectrum_cache
          /\ plot_items[id].name \notin DOMAIN polygon_cache

\* C27: SpectrumDislpay.save_current_spectra works on a read-only snapshot:
\* from the press of the button to the end of the export, cached_plots,
\* currently_plotted and the two name counters stay as they were, and the
\* export to a named file succeeds.
C27_SaveChangesNothing ==
    [][/\ PickerSave
            => UNCHANGED <<cached_plots, currently_plotted, single_spec_count,
                           mean_spec_count>>
       /\ \A file \in SaveFiles :
            PickerSaveAnswer(file)
                => /\ file # "" => raised' = "none"
                   /\ UNCHANGED <<cached_plots, currently_plotted,
                                  single_spec_count, mean_spec_count>>]_vars

C29_RegisteredSpectraAreDrawn ==
    fig_open =>
        \A id \in ({cached_plots[i] : i \in 1..Len(cached_plots)}
                      \cup {currently_plotted}) \ {0} :
            AxLine("current", id) \in ax_artists

\* C31: in scan mode, a motion event over an in-bounds pixel of the image,
\* also one in row 0 or column 0, sets the scan spectrum line's data to
\* that pixel's spectrum cube[row, col, :].
C31_ScanLineShowsPixel ==
    \A event \in ScanMotionEvents :
        (/\ im_event = <<"motion_notify", event>>
         /\ imdisplay.is_scanning
         /\ event.inaxes = "display_ax"
         /\ event.xdata >= 0 /\ event.xdata < 2 * Width
         /\ event.ydata >= 0 /\ event.ydata < 2 * Height)
            => imdisplay.data_line.ydata =
                   CubeAt(IntOfHalves(event.ydata), IntOfHalves(event.xdata))

\* C32: in RGBImageDisplay a pointer motion changes a channel's band index
\* only if that channel's indicator is pressed, an indicator gets pressed
\* only by a button press, after any button release no indicator is
\* pressed, and a motion with no indicator pressed leaves the three band
\* indices and the composite as they were.
C32_BandIndexFollowsPressedIndicator ==
    [][/\ \A event \in RGBImMotionEvents, c \in {"r", "g", "b"} :
            (RGBImMotion(event) /\ rgb'._idx[c] # rgb._idx[c])
                => imdisplay.indicator[c].pressed
       /\ \A event \in RGBImMotionEvents :
            (/\ RGBImMotion(event)
             /\ \A c \in {"r", "g", "b"} : ~imdisplay.indicator[c].pressed)
                => rgb' = rgb
       /\ \A event \in RGBImButtonEvents :
            RGBImButtonRelease(event)
                => \A c \in {"r", "g", "b"} : ~imdisplay'.indicator[c].pressed
       /\ app = "rgbdisplay"
            => \A c \in {"r", "g", "b"} :
                  (imdisplay'.indicator[c].pressed
                     /\ ~imdisplay.indicator[c].pressed)
                      => im_event'[1] = "button_press"
      ]_vars

\* the red and blue indicators were dragged to the last band and let go,
\* and the pointer then moves over the scanning axis without changing a band
C32_MotionAfterRelease ==
    /\ app = "rgbdisplay"
    /\ im_event[1] = "motion_notify"
    /\ im_event[2].inaxes = "scanning_ax"
    /\ im_event[2].xdata = 0
    /\ \A c \in {"r", "g", "b"} : ~imdisplay.indicator[c].pressed
    /\ imdisplay.indicator["r"].line_obj.xdata = wvl[BandCount]
    /\ rgb._idx = [c \in {"r", "g", "b"} |-> BandCount - 1]
    /\ raised = "none"

\* C33: an add that is rejected leaves the state as before the call: after
\* add_group with an array of the wrong shape, or add_spectrum with a
\* coordinate outside the cube, the counter _count and the caches are
\* unchanged.
C33_RejectedAddKeepsState ==
    [][(/\ \/ \E pos \in PointerPositions : PixelPick(pos)
           \/ \E coords \in {<< <<0, 0, 0>> >>} : AddGroup(coords)
        /\ raised' \in {"IndexError", "ValueError"})
          => /\ _count' = _count
             /\ spectrum_cache' = spectrum_cache
             /\ polygon_cache' = polygon_cache
             /\ plot_items' = plot_items]_vars

\* C34 (as claimed): square_image returns an offset in which exactly one of
\* x_offset and y_offset is non-zero, for every image it returns for.
C34_ExactlyOneOffsetNonZero ==
    (call.fn = "square_image" /\ call.result.raised = "none") =>
        (call.result.offset.x_offset # 0) # (call.result.offset.y_offset # 0)

\* the images for which square_image returns: those taller than wide, when the
\* height is also the first largest entry of img.shape (which holds the
\* three colour components of an RGB image), and the RGB image of one pixel
SquareImageReturns(h, w, is_rgb) ==
    \/ h > w /\ (is_rgb => h >= 3)
    \/ is_rgb /\ h = 1 /\ w = 1

\* C34 (amended): for every input image, 2-D or RGB: square_image raises
\* ValueError for every wide image, for every square image but the RGB
\* image of one pixel, and for the RGB image of two pixels by one; for
\* every other image it returns an offset in which at least one of x_offset
\* and y_offset is zero, neither is positive, and the two add up to minus
\* the padding length (max(img.shape) - short side) // 2, where img.shape
\* includes the colour axis of an RGB image.  Both offsets are zero when
\* that padding length is zero, as for a 2-D image one pixel taller than
\* wide.
C34_OneOffsetIsZero ==
    call.fn = "square_image" =>
        LET h == call.args[1]
            w == call.args[2]
            is_rgb == call.args[3]
            long_side == IF is_rgb /\ h < 3 /\ w < 3 THEN 3
                         ELSE IF h > w THEN h ELSE w
            short_side == IF h < w THEN h ELSE w
            offset == call.result.offset
        IN  IF SquareImageReturns(h, w, is_rgb)
            THEN /\ call.result.raised = "none"
                 /\ offset.x_offset = 0 \/ offset.y_offset = 0
                 /\ offset.x_offset <= 0 /\ offset.y_offset <= 0
                 /\ offset.x_offset + offset.y_offset =
                        -((long_side - short_side) \div 2)
            ELSE call.result.raised = "ValueError"

\* square_image returned for an image that is one pixel taller than wide
C34_SidesDifferByOne ==
    /\ call.fn = "square_image"
    /\ call.result.raised = "none"
    /\ call.args[1] = call.args[2] + 1
    /\ call.result.offset = [x_offset |-> 0, y_offset |-> 0]

\* C35: after SpectralDisplayWidget.set_cube returns, the length of the
\* stored wavelength array equals the band count of the stored cube.
C35_WavelengthsMatchBands ==
    call.fn = "set_cube" =>
        call.result.wvl.shape[1] = call.result.cube.shape[3]

\* C36: RGBCanvas.onselect converts each selected grid index to the pixel
\* (column, row) that set_pixel_coords stored at that position, shifted by
\* the offset of the padding: for every image height and width the list
\* holds each grid point of the square image inside the lasso once, as
\* (x + x_offset, y + y_offset), and nothing else.
C36_SelectedPixelsAreGridPoints ==
    call.fn = "onselect" =>
        LET squared == square_image(TestImage(call.args[1], call.args[2]), TRUE)
            grid == (0..(Len(squared.square_img[1]) - 1))
                        \X (0..(Len(squared.square_img) - 1))
            inside == call.args[3] \cap grid
            pixels == call.result
        IN  /\ Len(pixels) = Cardinality(inside)
            /\ {pixels[k] : k \in 1..Len(pixels)} =
                  {<<c[1] + squared.offset.x_offset,
                     c[2] + squared.offset.y_offset>> : c \in inside}

\* a lasso around the pixels (0, 1) and (1, 2) of the square image of a
\* 4 x 2 image gave two pixels, which add_lasso stored as an area
C36_TwoPixelsSelected ==
    /\ call.fn = "onselect"
    /\ call.args = <<Height, Width, {<<0, 1>>, <<1, 2>>}>>
    /\ Len(call.result) = 2
    /\ nspectra = 1
    /\ spectra[1].pixel_coords = call.result

\* C37: every PixelCoordinate that RGBCanvas.onselect passes to
\* SpectralCanvas.add_lasso lies inside the image, 0 <= x < width and
\* 0 <= y < height, also when the lasso covers part of the padded border
\* (the coordinates passed are those of the mean spectrum that is stored).
C37_SelectedPixelsInsideImage ==
    app = "rgbcanvas" =>
        \A id \in 1..Len(spectra) :
            spectra[id].kind = "mean" =>
                \A k \in 1..Len(spectra[id].pixel_coords) :
                    /\ spectra[id].pixel_coords[k][1] \in 0..(Width - 1)
                    /\ spectra[id].pixel_coords[k][2] \in 0..(Height - 1)

\* C38: in SpecViewWindow, after every completed add, rename, delete or
\* clear, polygon_cache and state.spectrum_cache have the same set of keys.
C38_CachesHaveSameKeys ==
    (app = "cubeview" /\ raised = "none") =>
        DOMAIN polygon_cache = DOMAIN spectrum_cache

\* a pixel spectrum and a renamed one are in both caches
C38_RenamedAndCached ==
    /\ app = "cubeview"
    /\ raised = "none"
    /\ DOMAIN spectrum_cache = {"ROCK", "SPECTRUM_02"}
    /\ DOMAIN polygon_cache = {"ROCK", "SPECTRUM_02"}

\* C39: in SpectralDisplayWidget at most one edit window is open: _editing
\* is true exactly while an edit window is open, a click on a spectrum
\* while it is true changes nothing, a click while it is false opens the
\* window of that spectrum, and after the window is closed or its spectrum
\* is deleted the flag is false.
C39_OneEditWindow ==
    /\ [](app = "cubeview" => (_editing <=> edit_win # 0))
    /\ [][/\ \A id \in 1..MaxItems :
                EditSpectrum(id) =>
                    IF _editing
                    THEN UNCHANGED cube_vars
                    ELSE _editing' /\ edit_win' = id
          /\ (CloseEditWindow \/ DeleteSpectrum)
                => ~_editing' /\ edit_win' = 0
         ]_vars

\* the first spectrum was deleted in its edit window and the edit window of
\* the second one is open
C39_NewEditAfterDelete ==
    /\ app = "cubeview"
    /\ _editing
    /\ edit_win = 2
    /\ hist.after = "startup" /\ hist.deleted > 0
    /\ PlotDataItem(1) \notin spec_plot
    /\ PlotDataItem(2) \in spec_plot

====
